---- MODULE Spec2Model ----
(***************************************************************************)
(* kafka-http-proxy: the broker pool (KafkaClient), its background tasks,  *)
(* the metadata cache and the three session handles (KafkaConsumer,        *)
(* KafkaProducer, KafkaOffsetCoordinator), as a state machine.             *)
(*                                                                         *)
(* A step of the model is what one goroutine does between two points where *)
(* it can block (a channel receive, a select, a delegate call).  Durations *)
(* are in seconds.  A delegate call is a call into the kafka client        *)
(* library; its outcome is an input of the model.                          *)
(***************************************************************************)
EXTENDS Integers, Sequences, FiniteSets

----------------------------------------------------------------------------
(* Bounds of the model *)

\* settings.Broker.NumConns: the size of the pool
NumConns == 2

\* the number of HTTP requests served at the same time
NumRequests == 2

\* the readings of the wall clock are 1 .. MaxClock seconds
MaxClock == 4

\* the number of messages the partition holds at most
MaxLog == 2

\* the limit parameter of a GET is at most MaxLimit
MaxLimit == 2

\* settings.Consumer.DefaultFetchSize and settings.Consumer.MaxFetchSize, in
\* bytes
DefaultFetchSize == 2
MaxFetchSize == 4

\* the number of bits of an int32 (of the limit, of the sizes and of their
\* product)
Int32Bits == 6

\* the length of a small body, in bytes
SmallBody == 1

----------------------------------------------------------------------------
(* Program constants *)

KhpErrorNoBrokers == 1
KhpErrorReadTimeout == 2
KhpErrorWriteTimeout == 3
KhpErrorOffsetCommitTimeout == 4
KhpErrorOffsetFetchTimeout == 5
KhpErrorConsumerClosed == 6
KhpErrorProducerClosed == 7
KhpErrorOffsetCoordinatorClosed == 8
KhpErrorMetadataReadTimeout == 9

\* the default configuration, in seconds
ReconnectPeriod == 15
CachePeriod == 3
GetMetadataTimeout == 1
GetOffsetsTimeout == 10
SendMessageTimeout == 15
GetMessageTimeout == 15
CommitOffsetTimeout == 15
FetchOffsetTimeout == 15

\* GetOffsets: the number of lookups, and of tries of one lookup
NumOffsets == 2
MaxRetry == 2

\* the statuses of the responses
StatusOK == 200
StatusBadRequest == 400
StatusRequestedRangeNotSatisfiable == 416
StatusInternalServerError == 500
StatusServiceUnavailable == 503

----------------------------------------------------------------------------
(* Values *)

BrokerIDs == 0 .. (NumConns - 1)
NoBroker == -1

\* task 0 is the metadata-refresh goroutine, the others serve HTTP requests
Refresher == 0
Requests == 1 .. NumRequests
Tasks == {Refresher} \cup Requests

Clock == 1 .. MaxClock

\* an error value: its dynamic type and, for a KhpError, its Errno
nil == [type |-> "nil", Errno |-> 0]
NoCall == [type |-> "none", Errno |-> 0]
KhpError(errno) == [type |-> "KhpError", Errno |-> errno]
\* errors of the kafka library: *proto.KafkaError and any other error
KafkaError == [type |-> "*proto.KafkaError", Errno |-> 0]
TransportError == [type |-> "error", Errno |-> 0]
\* kafka.ErrNoData, the error of a fetch that returned no message
ErrNoData == [type |-> "kafka.ErrNoData", Errno |-> 0]
DelegateErrors == {KafkaError, TransportError}

HandleKinds == {"Consumer", "Producer", "OffsetCoordinator"}

\* a *KafkaMetadata: none, the snapshot the refresh goroutine fetched (the
\* one the cache holds), or a snapshot a request fetched
NoMetadata == "none"
Snapshot(t) == IF t = Refresher THEN "refreshed" ELSE "fetched"

VARIABLES
    freeBrokers,          \* chan int64 of capacity NumConns: a sequence of ids
    deadBrokers,          \* chan int64 of capacity NumConns: a sequence of ids
    allBrokers,           \* id -> the state of the connection bound to the id
    Counters,             \* the FreeBrokers and DeadBrokers counters
    reconnect,            \* id -> the position of the id's reconnect goroutine
    rollingID,            \* the id the rolling-reconnect goroutine holds
    MetadataCachePeriod,  \* settings.Broker.MetadataCachePeriod
    lastMetadata,         \* cache.lastMetadata
    lastUpdateMetadata,   \* cache.lastUpdateMetadata
    task,                 \* task -> its position, locals and session handle
    stopReconnect,        \* chan struct{}: whether the channel is closed
    newClient,            \* the position of NewClient and its brokerID
    goroutines,           \* the goroutines of NewClient that have not returned
    MessageSize,          \* Server.MessageSize: topic -> size hint
    puts,                 \* topic -> the values MessageSize.Put was called with
    log,                  \* the messages of the partition, from offset 0
    handler               \* request -> the HTTP handler that serves it

poolVars == <<freeBrokers, deadBrokers, allBrokers, Counters, reconnect, rollingID>>
cacheVars == <<MetadataCachePeriod, lastMetadata, lastUpdateMetadata>>
lifeVars == <<stopReconnect, newClient, goroutines>>
serverVars == <<MessageSize, puts, log, handler>>
vars == <<poolVars, cacheVars, task, lifeVars, serverVars>>

----------------------------------------------------------------------------
(* Helpers *)

Range(s) == {s[i] : i \in DOMAIN s}

\* the state of a GetOffsets call: the try each fetcher goroutine is in
\* (MaxRetry when the goroutine has ended), the results channel, the timeout
\* channel (closed or not), the locals of the loop, and whether each fetcher
\* goroutine is inside its lookup (calling)
NoOffsets ==
    [fetcher |-> [k \in 1 .. NumOffsets |-> MaxRetry], results |-> <<>>, timeout |-> FALSE,
     i |-> 0, err |-> nil, isTimeout |-> FALSE,
     calling |-> [k \in 1 .. NumOffsets |-> FALSE]]

\* the goroutine GetMetadata starts for its delegate call: pc is "go" when it
\* is started and has not evaluated k.allBrokers[brokerID], "Metadata" when
\* it is in the call; id is the brokerID it captured; rebound tells whether
\* allBrokers[id] was assigned since the id was borrowed; conn is the
\* connection the call runs on, the one bound to id when it was borrowed or
\* a replacement
NoDelegate == [pc |-> "none", id |-> NoBroker, rebound |-> FALSE, conn |-> "none"]

\* A task: pc is the call it is blocked in ("idle": in none), ret the error
\* its last call returned and meta the snapshot it returned, brokerID the
\* id of the running call or of the session handle it holds, handle the kind
\* of that handle, opened the flag of the handle, offsets the state of its
\* GetOffsets call, found its last lookup in a metadata snapshot (the call
\* and what it returned), delegate the goroutine of its last GetMetadata.
IdleTask ==
    [pc |-> "idle", ret |-> NoCall, meta |-> NoMetadata, brokerID |-> NoBroker,
     handle |-> "none", opened |-> FALSE, offsets |-> NoOffsets, found |-> <<>>,
     delegate |-> NoDelegate]

\* the topics of the requests
Topics == {"t"}

\* the topic and partition of every request
Topic == "t"

\* MessageSize holds no value for the topic
NoSize == -1

\* a body of a POST, a value of a message: its bytes, their number and
\* whether they are JSON
Body(value, len, json) == [value |-> value, len |-> len, json |-> json]
NoBody == Body("", 0, FALSE)
Bodies ==
    {Body("p", SmallBody, TRUE), Body("q", DefaultFetchSize + 1, TRUE),
     Body("r", MaxFetchSize + 1, TRUE), Body("x", SmallBody, FALSE)}

\* The handler of a request: the handler function (kind), the call it is
\* in (pc; "done": it has returned), its locals, the MaxFetchSize of the
\* configuration its running call of NewConsumer was given (fetchSize), the
\* consumer name of an offset commit, the number of its calls of NewConsumer, the offsets POSTs had been answered
\* with when the request came (answered), and what it has written to the
\* response.
IdleHandler ==
    [kind |-> "none", pc |-> "done", msg |-> NoBody, limit |-> 0,
     start |-> -1, offset |-> -1, length |-> 0, offsetTo |-> 0,
     size |-> 0, maxSize |-> 0, successSent |-> FALSE, fetchSize |-> 0,
     consumer |-> "", consumers |-> 0, answered |-> {}, response |-> <<>>]

\* the goroutines NewClient starts: the metadata refresh, the rolling
\* reconnect and the receiver of the dead queue
StartedGoroutines ==
    {"dead"} \cup (IF MetadataCachePeriod > 0 THEN {"refresh"} ELSE {})
             \cup (IF ReconnectPeriod > 0 THEN {"rolling"} ELSE {})

\* the state NewClient returns with no error: the pool and its goroutines
InitClient ==
    /\ freeBrokers = [i \in 1 .. NumConns |-> i - 1]
    /\ deadBrokers = <<>>
    /\ allBrokers = [id \in BrokerIDs |-> "open"]
    /\ Counters = [FreeBrokers |-> NumConns, DeadBrokers |-> 0]
    /\ reconnect = [id \in BrokerIDs |-> "none"]
    /\ rollingID = NoBroker
    /\ MetadataCachePeriod \in {0, CachePeriod}
    /\ lastMetadata = NoMetadata
    /\ lastUpdateMetadata = 0
    /\ task = [t \in Tasks |-> IdleTask]
    /\ stopReconnect = FALSE
    /\ newClient = [pc |-> "started", brokerID |-> NumConns]
    /\ goroutines = StartedGoroutines

\* ... and a server that has served no request, on an empty partition
Init ==
    /\ InitClient
    /\ MessageSize = [topic \in Topics |-> NoSize]
    /\ puts = [topic \in Topics |-> {}]
    /\ log = <<>>
    /\ handler = [t \in Requests |-> IdleHandler]

----------------------------------------------------------------------------
(* The pool: getBroker, freeBroker, deadBroker *)

\* getBroker without the default case of its select: it waits for an id
getBrokerBlocks ==
    IF Len(freeBrokers) > 0
    THEN [ready |-> TRUE, id |-> Head(freeBrokers), err |-> nil,
          freeBrokers |-> Tail(freeBrokers),
          FreeBrokers |-> Counters.FreeBrokers - 1]
    ELSE [ready |-> FALSE, id |-> 0, err |-> KhpError(KhpErrorNoBrokers),
          freeBrokers |-> freeBrokers,
          FreeBrokers |-> Counters.FreeBrokers]

\* getBroker that leaves the id it returns in the queue
getBrokerPeek ==
    IF Len(freeBrokers) > 0
    THEN [ready |-> TRUE, id |-> Head(freeBrokers), err |-> nil,
          freeBrokers |-> freeBrokers,
          FreeBrokers |-> Counters.FreeBrokers - 1]
    ELSE [ready |-> TRUE, id |-> 0, err |-> KhpError(KhpErrorNoBrokers),
          freeBrokers |-> freeBrokers,
          FreeBrokers |-> Counters.FreeBrokers]

\* getBroker in the current state: whether the select is ready, the id and
\* the error it returns, and the queue and the counter it leaves
getBroker ==
    IF Len(freeBrokers) > 0
    THEN [ready |-> TRUE, id |-> Head(freeBrokers), err |-> nil,
          freeBrokers |-> Tail(freeBrokers),
          FreeBrokers |-> Counters.FreeBrokers - 1]
    ELSE [ready |-> TRUE, id |-> 0, err |-> KhpError(KhpErrorNoBrokers),
          freeBrokers |-> freeBrokers,
          FreeBrokers |-> Counters.FreeBrokers]

\* a getBroker that counts down FreeBrokers when it fails, too
BorrowedCounts(b) ==
    /\ b.ready
    /\ freeBrokers' = b.freeBrokers
    /\ Counters' = [Counters EXCEPT !.FreeBrokers = @ - 1]
    /\ UNCHANGED <<deadBrokers, allBrokers, reconnect>>

\* the pool after a call of getBroker that returned b
Borrowed(b) ==
    /\ b.ready
    /\ freeBrokers' = b.freeBrokers
    /\ Counters' = [Counters EXCEPT !.FreeBrokers = b.FreeBrokers]
    /\ UNCHANGED <<deadBrokers, allBrokers, reconnect>>

freeBroker(id) ==
    /\ Len(freeBrokers) < NumConns
    /\ freeBrokers' = Append(freeBrokers, id)
    /\ Counters' = [Counters EXCEPT !.FreeBrokers = @ + 1]
    /\ UNCHANGED deadBrokers

deadBroker(id) ==
    /\ Len(deadBrokers) < NumConns
    /\ deadBrokers' = Append(deadBrokers, id)
    /\ Counters' = [Counters EXCEPT !.DeadBrokers = @ + 1]
    /\ UNCHANGED freeBrokers

\* the task after a call of getBroker that returned b: blocked in call
\* waiting when it got an id, returned with the error otherwise
CalledTask(t, b, waiting) ==
    IF b.err = nil
    THEN [task[t] EXCEPT !.pc = waiting, !.ret = NoCall,
                         !.meta = NoMetadata, !.brokerID = b.id]
    ELSE [task[t] EXCEPT !.pc = "idle", !.ret = b.err,
                         !.meta = NoMetadata, !.brokerID = NoBroker]

Called(t, b, waiting) ==
    task' = [task EXCEPT ![t] = CalledTask(t, b, waiting)]

\* a task that holds no session handle and is in no call
Free(t) == task[t].pc = "idle" /\ task[t].handle = "none"

\* The three functions in two steps each, the channel operation and the
\* update of the counter, for a caller t that borrows an id, holds it and
\* gives it back to either queue (pc: the function t is in, between the two
\* steps).  The channel operation of getBroker, freeBroker or deadBroker:
QueueStep(t, function) ==
    /\ task[t].pc = "idle"
    /\ CASE function = "getBroker" ->
            /\ task[t].brokerID = NoBroker
            /\ IF Len(freeBrokers) > 0
               THEN /\ freeBrokers' = Tail(freeBrokers)
                    /\ task' = [task EXCEPT ![t].pc = "getBroker",
                                            ![t].brokerID = Head(freeBrokers)]
               ELSE /\ task' = [task EXCEPT ![t].ret = KhpError(KhpErrorNoBrokers)]
                    /\ UNCHANGED freeBrokers
            /\ UNCHANGED deadBrokers
         [] function = "freeBroker" ->
            /\ task[t].brokerID # NoBroker
            /\ Len(freeBrokers) < NumConns
            /\ freeBrokers' = Append(freeBrokers, task[t].brokerID)
            /\ task' = [task EXCEPT ![t].pc = "freeBroker", ![t].brokerID = NoBroker]
            /\ UNCHANGED deadBrokers
         [] function = "deadBroker" ->
            /\ task[t].brokerID # NoBroker
            /\ Len(deadBrokers) < NumConns
            /\ deadBrokers' = Append(deadBrokers, task[t].brokerID)
            /\ task' = [task EXCEPT ![t].pc = "deadBroker", ![t].brokerID = NoBroker]
            /\ UNCHANGED freeBrokers
    /\ UNCHANGED <<allBrokers, Counters, reconnect, rollingID, cacheVars>>

\* the update of the counter, and the return of the function
CounterStep(t) ==
    /\ task[t].pc \in {"getBroker", "freeBroker", "deadBroker"}
    /\ Counters' =
        CASE task[t].pc = "getBroker" -> [Counters EXCEPT !.FreeBrokers = @ - 1]
          [] task[t].pc = "freeBroker" -> [Counters EXCEPT !.FreeBrokers = @ + 1]
          [] task[t].pc = "deadBroker" -> [Counters EXCEPT !.DeadBrokers = @ + 1]
    /\ task' = [task EXCEPT ![t].pc = "idle", ![t].ret = nil]
    /\ UNCHANGED <<freeBrokers, deadBrokers, allBrokers, reconnect, rollingID, cacheVars>>

----------------------------------------------------------------------------
(* NewClient: the background goroutines *)

\* the goroutine is in its loop: the select takes any case that is ready,
\* the case of stopReconnect or (with the timer fired, or an id in the dead
\* queue) the other one
Started(g) == g \in goroutines

\* a rolling reconnect that picks the head of the free queue and leaves it
\* there
RollingReconnectPeek ==
    /\ ReconnectPeriod > 0
    /\ Started("rolling")
    /\ rollingID = NoBroker
    /\ LET b == getBrokerPeek IN
        /\ Borrowed(b)
        /\ rollingID' = IF b.err = nil THEN b.id ELSE NoBroker
    /\ UNCHANGED <<cacheVars, task>>

\* the rolling-reconnect goroutine, once per ReconnectPeriod: getBroker ...
RollingReconnect ==
    /\ ReconnectPeriod > 0
    /\ Started("rolling")
    /\ rollingID = NoBroker
    /\ LET b == getBroker IN
        /\ Borrowed(b)
        /\ rollingID' = IF b.err = nil THEN b.id ELSE NoBroker
    /\ UNCHANGED <<cacheVars, task>>

\* ... and deadBroker on the id it got
RollingDead ==
    /\ rollingID # NoBroker
    /\ deadBroker(rollingID)
    /\ rollingID' = NoBroker
    /\ UNCHANGED <<allBrokers, reconnect, cacheVars, task>>

\* a dead-set goroutine that reconnects the ids one after the other: it
\* receives the next id when the reconnect of the last one has ended
DeadReceiveInTurn ==
    /\ Started("dead")
    /\ \A id \in BrokerIDs : reconnect[id] = "none"
    /\ Len(deadBrokers) > 0
    /\ deadBrokers' = Tail(deadBrokers)
    /\ Counters' = [Counters EXCEPT !.DeadBrokers = @ - 1]
    /\ reconnect' = [reconnect EXCEPT ![Head(deadBrokers)] = "close"]
    /\ UNCHANGED <<freeBrokers, allBrokers, rollingID, cacheVars, task>>

\* the dead-set goroutine receives an id and starts the id's reconnect
DeadReceive ==
    /\ Started("dead")
    /\ Len(deadBrokers) > 0
    /\ deadBrokers' = Tail(deadBrokers)
    /\ Counters' = [Counters EXCEPT !.DeadBrokers = @ - 1]
    /\ reconnect' = [reconnect EXCEPT ![Head(deadBrokers)] = "close"]
    /\ UNCHANGED <<freeBrokers, allBrokers, rollingID, cacheVars, task>>

\* The same in two steps: the dead-set goroutine receives an id ...  (One
\* goroutine an id is followed: the id is taken when the goroutine of its
\* last reconnect has returned.)
DeadTake ==
    /\ Started("dead")
    /\ Len(deadBrokers) > 0
    /\ \A id \in BrokerIDs : reconnect[id] # "received"
    /\ reconnect[Head(deadBrokers)] = "none"
    /\ deadBrokers' = Tail(deadBrokers)
    /\ reconnect' = [reconnect EXCEPT ![Head(deadBrokers)] = "received"]
    /\ UNCHANGED <<freeBrokers, allBrokers, Counters, rollingID, cacheVars, task>>

\* ... and updates the counter and starts the id's reconnect
DeadDec(id) ==
    /\ reconnect[id] = "received"
    /\ Counters' = [Counters EXCEPT !.DeadBrokers = @ - 1]
    /\ reconnect' = [reconnect EXCEPT ![id] = "close"]
    /\ UNCHANGED <<freeBrokers, deadBrokers, allBrokers, rollingID, cacheVars, task>>

\* a reconnect goroutine that dials with the old connection left open
ReconnectNoClose(id) ==
    /\ reconnect[id] = "close"
    /\ reconnect' = [reconnect EXCEPT ![id] = "dial"]
    /\ UNCHANGED <<freeBrokers, deadBrokers, allBrokers, Counters, rollingID,
                   cacheVars, task>>

\* the reconnect goroutine of id closes the old connection
ReconnectClose(id) ==
    /\ reconnect[id] = "close"
    /\ allBrokers' = [allBrokers EXCEPT ![id] = "closed"]
    /\ reconnect' = [reconnect EXCEPT ![id] = "dial"]
    /\ UNCHANGED <<freeBrokers, deadBrokers, Counters, rollingID, cacheVars, task>>

\* kafka.Dial fails: the error is logged and the loop dials again
ReconnectDialFails(id) ==
    /\ reconnect[id] = "dial"
    /\ UNCHANGED vars

\* a reconnect that frees the id and leaves the closed connection bound to it
ReconnectDialOKUnbound(id) ==
    /\ reconnect[id] = "dial"
    /\ freeBroker(id)
    /\ reconnect' = [reconnect EXCEPT ![id] = "none"]
    /\ UNCHANGED <<allBrokers, rollingID, cacheVars, task>>

\* kafka.Dial succeeds: the new connection is bound to id, the id is freed
ReconnectDialOK(id) ==
    /\ reconnect[id] = "dial"
    /\ allBrokers' = [allBrokers EXCEPT ![id] = "open"]
    /\ freeBroker(id)
    /\ reconnect' = [reconnect EXCEPT ![id] = "none"]
    /\ UNCHANGED <<rollingID, cacheVars, task>>

\* The same in two steps: kafka.Dial succeeds, the new connection is bound
\* to id and the id is sent to the free queue ...
ReconnectSend(id) ==
    /\ reconnect[id] = "dial"
    /\ Len(freeBrokers) < NumConns
    /\ allBrokers' = [allBrokers EXCEPT ![id] = "open"]
    /\ freeBrokers' = Append(freeBrokers, id)
    /\ reconnect' = [reconnect EXCEPT ![id] = "freeBroker"]
    /\ UNCHANGED <<deadBrokers, Counters, rollingID, cacheVars, task>>

\* ... and freeBroker updates the counter
ReconnectInc(id) ==
    /\ reconnect[id] = "freeBroker"
    /\ Counters' = [Counters EXCEPT !.FreeBrokers = @ + 1]
    /\ reconnect' = [reconnect EXCEPT ![id] = "none"]
    /\ UNCHANGED <<freeBrokers, deadBrokers, allBrokers, rollingID, cacheVars, task>>

----------------------------------------------------------------------------
(* NewClient: the dial loop; KafkaClient.Close *)

\* allBrokers after broker.Close() on every connection of the map
ClosedBrokers ==
    [id \in BrokerIDs |-> IF allBrokers[id] = "none" THEN "none" ELSE "closed"]

\* kafka.Dial succeeds: the connection is bound to brokerID and the id is
\* freed; after the last id NewClient starts its goroutines and returns the
\* client
NewClientDialOK ==
    /\ newClient.pc = "dial"
    /\ newClient.brokerID < NumConns
    /\ allBrokers' = [allBrokers EXCEPT ![newClient.brokerID] = "open"]
    /\ freeBroker(newClient.brokerID)
    /\ LET last == newClient.brokerID + 1 = NumConns IN
        /\ newClient' = [pc |-> IF last THEN "started" ELSE "dial",
                         brokerID |-> newClient.brokerID + 1]
        /\ goroutines' = IF last THEN StartedGoroutines ELSE goroutines
    /\ UNCHANGED <<reconnect, rollingID, cacheVars, task, stopReconnect, serverVars>>

\* a NewClient that returns the error of kafka.Dial and closes nothing
NewClientDialFailsReturns ==
    /\ newClient.pc = "dial"
    /\ newClient.brokerID < NumConns
    /\ newClient' = [newClient EXCEPT !.pc = "failed"]
    /\ UNCHANGED <<poolVars, cacheVars, task, stopReconnect, goroutines, serverVars>>

\* kafka.Dial fails: NewClient calls client.Close() and returns the error
NewClientDialFails ==
    /\ newClient.pc = "dial"
    /\ newClient.brokerID < NumConns
    /\ stopReconnect' = TRUE
    /\ allBrokers' = ClosedBrokers
    /\ newClient' = [newClient EXCEPT !.pc = "failed"]
    /\ UNCHANGED <<freeBrokers, deadBrokers, Counters, reconnect, rollingID,
                   cacheVars, task, goroutines, serverVars>>

\* Close on the client NewClient returned.  (A second Close would close a
\* closed channel.)
ClientClose ==
    /\ newClient.pc = "started"
    /\ ~stopReconnect
    /\ stopReconnect' = TRUE
    /\ allBrokers' = ClosedBrokers
    /\ UNCHANGED <<freeBrokers, deadBrokers, Counters, reconnect, rollingID,
                   cacheVars, task, newClient, goroutines, serverVars>>

\* the select of goroutine g takes the case of stopReconnect: g returns
GoroutineReturn(g) ==
    /\ stopReconnect
    /\ Started(g)
    /\ g = "refresh" => task[Refresher].pc = "idle"
    /\ g = "rolling" => rollingID = NoBroker
    /\ goroutines' = goroutines \ {g}
    /\ UNCHANGED <<poolVars, cacheVars, task, stopReconnect, newClient, serverVars>>

----------------------------------------------------------------------------
(* GetMetadata, FetchMetadata and the metadata-refresh goroutine *)

\* the error a call leaves in the task: the refresh goroutine logs the
\* error and keeps neither it nor the snapshot that came with it.  (The
\* GetMetadata of a request returns its snapshot with an error, too.)
Returned(t, err) == IF t = Refresher THEN NoCall ELSE err

\* GetMetadata up to its select
GetMetadata(t) ==
    /\ LET b == getBroker IN
        /\ Borrowed(b)
        /\ task' = [task EXCEPT ![t] =
                [CalledTask(t, b, "GetMetadata") EXCEPT
                    !.ret = Returned(t, @)]]
    /\ UNCHANGED <<rollingID, cacheVars>>

\* a GetMetadata that quarantines the id when the delegate call failed
GetMetadataResultQuarantines(t, kafkaErr) ==
    /\ task[t].pc = "GetMetadata"
    /\ IF kafkaErr = nil
       THEN freeBroker(task[t].brokerID)
       ELSE deadBroker(task[t].brokerID)
    /\ task' = [task EXCEPT ![t] =
            [@ EXCEPT !.pc = IF t = Refresher /\ kafkaErr = nil
                             THEN "store" ELSE "idle",
                      !.ret = Returned(t, kafkaErr),
                      !.meta = IF t = Refresher /\ kafkaErr # nil
                               THEN NoMetadata ELSE Snapshot(t),
                      !.brokerID = NoBroker]]
    /\ UNCHANGED <<allBrokers, reconnect, rollingID, cacheVars>>

\* the select of GetMetadata receives from result
GetMetadataResult(t, kafkaErr) ==
    /\ task[t].pc = "GetMetadata"
    /\ freeBroker(task[t].brokerID)
    /\ task' = [task EXCEPT ![t] =
            [@ EXCEPT !.pc = IF t = Refresher /\ kafkaErr = nil
                             THEN "store" ELSE "idle",
                      !.ret = Returned(t, kafkaErr),
                      !.meta = IF t = Refresher /\ kafkaErr # nil
                               THEN NoMetadata ELSE Snapshot(t),
                      !.brokerID = NoBroker]]
    /\ UNCHANGED <<allBrokers, reconnect, rollingID, cacheVars>>

\* the select of GetMetadata receives from timeout
GetMetadataTimedOut(t) ==
    /\ task[t].pc = "GetMetadata"
    /\ GetMetadataTimeout > 0
    /\ deadBroker(task[t].brokerID)
    /\ task' = [task EXCEPT ![t] =
            [@ EXCEPT !.pc = "idle",
                      !.ret = Returned(t, KhpError(KhpErrorMetadataReadTimeout)),
                      !.meta = IF t = Refresher THEN NoMetadata
                               ELSE Snapshot(t),
                      !.brokerID = NoBroker]]
    /\ UNCHANGED <<allBrokers, reconnect, rollingID, cacheVars>>

\* GetMetadata with the goroutine of its delegate call.  GetMetadata up to
\* its select: the goroutine is started.  (One goroutine a caller is
\* followed: the call starts when the goroutine of the caller's last call has
\* returned.)
GetMetadataGo(t) ==
    /\ Free(t)
    /\ task[t].delegate.pc = "none"
    /\ LET b == getBroker IN
        /\ Borrowed(b)
        /\ task' = [task EXCEPT ![t] =
                [CalledTask(t, b, "GetMetadata") EXCEPT
                    !.delegate = IF b.err = nil
                                 THEN [NoDelegate EXCEPT !.pc = "go", !.id = b.id]
                                 ELSE @]]
    /\ UNCHANGED <<rollingID, cacheVars>>

\* the reconnect goroutine of the id is at its assignment of allBrokers[id]
\* while the goroutine of t has its read of allBrokers[id] ahead, and
\* nothing orders the two
Racing(t) ==
    /\ task[t].delegate.pc = "go"
    /\ reconnect[task[t].delegate.id] = "dial"

\* the connections the read of allBrokers[id] by the goroutine of t can
\* give: the one bound to the id, or either one when the read races with the
\* assignment
ReadConns(t) ==
    {IF task[t].delegate.rebound THEN "replacement" ELSE "borrowed"}
        \cup (IF Racing(t) THEN {"replacement"} ELSE {})

\* the goroutine evaluates k.allBrokers[brokerID] and calls Metadata() on it
DelegateReads(t, conn) ==
    /\ task[t].delegate.pc = "go"
    /\ conn \in ReadConns(t)
    /\ task' = [task EXCEPT ![t].delegate.pc = "Metadata",
                            ![t].delegate.conn = conn]
    /\ UNCHANGED <<poolVars, cacheVars>>

\* Metadata() returns kafkaErr and the goroutine closes result: the select of
\* GetMetadata, when the call has not returned at its timeout, receives from
\* result
DelegateReturns(t, kafkaErr) ==
    /\ task[t].delegate.pc = "Metadata"
    /\ IF task[t].pc = "GetMetadata"
       THEN /\ freeBroker(task[t].brokerID)
            /\ task' = [task EXCEPT ![t] =
                    [@ EXCEPT !.pc = "idle", !.ret = kafkaErr,
                              !.meta = Snapshot(t), !.brokerID = NoBroker,
                              !.delegate = NoDelegate]]
       ELSE /\ task' = [task EXCEPT ![t].delegate = NoDelegate]
            /\ UNCHANGED <<freeBrokers, deadBrokers, Counters>>
    /\ UNCHANGED <<allBrokers, reconnect, rollingID, cacheVars>>

\* kafka.Dial succeeds in the reconnect goroutine of id: the new connection
\* is bound to id, under the goroutines that captured the id, and the id is
\* freed
ReconnectBind(id) ==
    /\ reconnect[id] = "dial"
    /\ allBrokers' = [allBrokers EXCEPT ![id] = "open"]
    /\ freeBroker(id)
    /\ reconnect' = [reconnect EXCEPT ![id] = "none"]
    /\ task' = [t \in Tasks |->
            IF task[t].delegate.id = id
            THEN [task[t] EXCEPT !.delegate.rebound = TRUE]
            ELSE task[t]]
    /\ UNCHANGED <<rollingID, cacheVars>>

\* the test of FetchMetadata without the absolute value
CacheFreshNoAbs(now) ==
    /\ MetadataCachePeriod > 0
    /\ lastUpdateMetadata > 0
    /\ now - lastUpdateMetadata < MetadataCachePeriod

\* the test of FetchMetadata on the cache, when time.Now() returns now
CacheFresh(now) ==
    /\ MetadataCachePeriod > 0
    /\ lastUpdateMetadata > 0
    /\ LET period == now - lastUpdateMetadata IN
        (IF period < 0 THEN -period ELSE period) < MetadataCachePeriod

\* a read of the cache that takes no lock
RLockFree == TRUE

\* cache.RLock(): no writer holds the lock or waits for it
RLock == task[Refresher].pc \notin {"store", "stamp"}

\* FetchMetadata takes the read lock of the cache
FetchMetadata(t, now) ==
    /\ Free(t)
    /\ RLock
    /\ IF CacheFresh(now)
       THEN /\ task' = [task EXCEPT ![t] =
                    [@ EXCEPT !.ret = nil, !.meta = lastMetadata]]
            /\ UNCHANGED <<poolVars, cacheVars>>
       ELSE GetMetadata(t)

\* the refresh goroutine wakes up after MetadataCachePeriod
RefreshMetadata ==
    /\ MetadataCachePeriod > 0
    /\ Started("refresh")
    /\ task[Refresher].pc = "idle"
    /\ GetMetadata(Refresher)

\* the refresh goroutine takes the write lock (no FetchMetadata holds the
\* read lock) and stores the snapshot ...
RefreshLock ==
    /\ task[Refresher].pc = "store"
    /\ \A r \in Requests : task[r].pc # "GetMetadata"
    /\ lastMetadata' = task[Refresher].meta
    /\ task' = [task EXCEPT ![Refresher] =
            [@ EXCEPT !.pc = "stamp", !.meta = NoMetadata]]
    /\ UNCHANGED <<poolVars, MetadataCachePeriod, lastUpdateMetadata>>

\* ... then the time time.Now() returns, and unlocks
RefreshStore(now) ==
    /\ task[Refresher].pc = "stamp"
    /\ lastUpdateMetadata' = now
    /\ task' = [task EXCEPT ![Refresher].pc = "idle"]
    /\ UNCHANGED <<poolVars, MetadataCachePeriod, lastMetadata>>

----------------------------------------------------------------------------
(* KafkaMetadata: the lookups in a snapshot *)

\* A snapshot is the sequence m.Metadata.Topics of topic records, each with
\* its Name, its Err (nil, or the error marker of the topic) and the
\* sequence of its partition records (ID, Leader, Isrs).
TopicRecord(name, err, partitions) == [Name |-> name, Err |-> err, Partitions |-> partitions]
PartitionRecord(id, leader, isrs) == [ID |-> id, Leader |-> leader, Isrs |-> isrs]

\* the first partition record of the records with the given ID, as a
\* sequence of at most one record
RECURSIVE PartitionOf(_, _)
PartitionOf(partitions, partitionID) ==
    IF partitions = <<>> THEN <<>>
    ELSE IF Head(partitions).ID # partitionID
    THEN PartitionOf(Tail(partitions), partitionID)
    ELSE <<Head(partitions)>>

\* KafkaMetadata.Leader over the topic records
RECURSIVE Leader(_, _, _)
Leader(topics, topic, partitionID) ==
    IF topics = <<>> THEN [value |-> -1, err |-> nil]
    ELSE LET t == Head(topics)
             p == PartitionOf(t.Partitions, partitionID)
         IN IF t.Err # nil THEN [value |-> -1, err |-> t.Err]
            ELSE IF t.Name # topic \/ p = <<>>
            THEN Leader(Tail(topics), topic, partitionID)
            ELSE [value |-> p[1].Leader, err |-> nil]

\* KafkaMetadata.Replicas over the topic records (a nil slice is the empty
\* list)
RECURSIVE Replicas(_, _, _)
Replicas(topics, topic, partitionID) ==
    IF topics = <<>> THEN [value |-> <<>>, err |-> nil]
    ELSE LET t == Head(topics)
             p == PartitionOf(t.Partitions, partitionID)
         IN IF t.Err # nil THEN [value |-> <<>>, err |-> t.Err]
            ELSE IF t.Name # topic \/ p = <<>>
            THEN Replicas(Tail(topics), topic, partitionID)
            ELSE [value |-> p[1].Isrs, err |-> nil]

\* task t looks the leader, or the replicas, of a partition up in the
\* snapshot the cache holds
Lookup(t, call, topic, partitionID) ==
    /\ task[t].pc = "idle"
    /\ LET r == IF call = "Leader"
                THEN Leader(lastMetadata, topic, partitionID)
                ELSE Replicas(lastMetadata, topic, partitionID)
       IN task' = [task EXCEPT ![t].found =
                [call |-> call, topic |-> topic, partitionID |-> partitionID,
                 value |-> r.value, err |-> r.err]]
    /\ UNCHANGED <<poolVars, cacheVars>>

----------------------------------------------------------------------------
(* GetOffsets *)

\* GetOffsets up to its loop: both fetcher goroutines are in their first try
GetOffsets(t) ==
    /\ Free(t)
    /\ LET b == getBroker IN
        /\ Borrowed(b)
        /\ task' = [task EXCEPT ![t] =
                IF b.err = nil
                THEN [CalledTask(t, b, "GetOffsets") EXCEPT
                        !.offsets = [NoOffsets EXCEPT
                            !.fetcher = [k \in 1 .. NumOffsets |-> 0]]]
                ELSE CalledTask(t, b, "GetOffsets")]
    /\ UNCHANGED <<rollingID, cacheVars>>

\* the timer of GetOffsets closes timeout
GetOffsetsTimer(t) ==
    /\ task[t].pc = "GetOffsets"
    /\ GetOffsetsTimeout > 0
    /\ ~task[t].offsets.timeout
    /\ task' = [task EXCEPT ![t].offsets.timeout = TRUE]
    /\ UNCHANGED <<poolVars, cacheVars>>

\* fetcher goroutine k of GetOffsets, one pass of its loop, in try number
\* fetcher[k]: it finds timeout closed and returns, or its lookup returns
\* goErr and it sends goErr or tries again
Fetcher(t, k, goErr) ==
    /\ task[t].pc = "GetOffsets"
    /\ task[t].offsets.fetcher[k] \in 0 .. (MaxRetry - 1)
    /\ LET o == task[t].offsets
           retry == o.fetcher[k]
       IN task' = [task EXCEPT ![t].offsets =
            IF o.timeout
            THEN [o EXCEPT !.fetcher[k] = MaxRetry]
            ELSE IF goErr = nil \/ goErr = KafkaError \/ retry + 1 >= MaxRetry
            THEN [o EXCEPT !.fetcher[k] = MaxRetry,
                           !.results = Append(@, goErr)]
            ELSE [o EXCEPT !.fetcher[k] = retry + 1]]
    /\ UNCHANGED <<poolVars, cacheVars>>

\* The same pass in two steps, the lookup taking time: fetcher goroutine k
\* finds timeout closed and returns, or it starts its lookup on the
\* connection of the id at
FetcherCall(t, k) ==
    /\ task[t].pc = "GetOffsets"
    /\ task[t].offsets.fetcher[k] \in 0 .. (MaxRetry - 1)
    /\ ~task[t].offsets.calling[k]
    /\ task' = [task EXCEPT ![t].offsets =
            IF @.timeout
            THEN [@ EXCEPT !.fetcher[k] = MaxRetry]
            ELSE [@ EXCEPT !.calling[k] = TRUE]]
    /\ UNCHANGED <<poolVars, cacheVars>>

\* the lookup of fetcher goroutine k returns goErr: the goroutine sends goErr
\* or goes to its next try
FetcherReturns(t, k, goErr) ==
    /\ task[t].pc = "GetOffsets"
    /\ task[t].offsets.calling[k]
    /\ LET o == [task[t].offsets EXCEPT !.calling[k] = FALSE]
           retry == o.fetcher[k]
       IN task' = [task EXCEPT ![t].offsets =
            IF goErr = nil \/ goErr = KafkaError \/ retry + 1 >= MaxRetry
            THEN [o EXCEPT !.fetcher[k] = MaxRetry,
                           !.results = Append(@, goErr)]
            ELSE [o EXCEPT !.fetcher[k] = retry + 1]]
    /\ UNCHANGED <<poolVars, cacheVars>>

\* one pass of the loop of GetOffsets over offsets, the select taking the
\* given case: the values of err and isTimeout after it
OffsetsSelect(o, case) ==
    IF case = "results"
    THEN [err |-> Head(o.results), isTimeout |-> o.isTimeout]
    ELSE [err |-> KhpError(KhpErrorReadTimeout), isTimeout |-> TRUE]

\* one pass of the loop of GetOffsets and, after the last one, the rest of
\* GetOffsets
GetOffsetsLoop(t, case) ==
    /\ task[t].pc = "GetOffsets"
    /\ LET o == task[t].offsets
           s == OffsetsSelect(o, case)
       IN /\ IF case = "results" THEN Len(o.results) > 0 ELSE o.timeout
          /\ IF o.i + 1 < NumOffsets
             THEN /\ task' = [task EXCEPT ![t].offsets =
                        [o EXCEPT !.i = @ + 1, !.err = s.err,
                                  !.isTimeout = s.isTimeout,
                                  !.results = IF case = "results"
                                              THEN Tail(@) ELSE @]]
                  /\ UNCHANGED <<freeBrokers, deadBrokers, Counters>>
             ELSE /\ IF s.isTimeout
                     THEN deadBroker(task[t].brokerID)
                     ELSE freeBroker(task[t].brokerID)
                  /\ task' = [task EXCEPT ![t] =
                        [@ EXCEPT !.pc = "idle", !.ret = s.err,
                                  !.brokerID = NoBroker,
                                  !.offsets = NoOffsets]]
    /\ UNCHANGED <<allBrokers, reconnect, rollingID, cacheVars>>

----------------------------------------------------------------------------
(* The session handles: KafkaConsumer, KafkaProducer, KafkaOffsetCoordinator *)

\* the operations of each kind of handle
HandleOf(o) ==
    CASE o = "Message" -> "Consumer"
      [] o = "SendMessage" -> "Producer"
      [] o \in {"CommitOffset", "FetchOffset"} -> "OffsetCoordinator"

HandleOps == {"Message", "SendMessage", "CommitOffset", "FetchOffset"}

\* the error of an operation on a handle that is not opened
ClosedError(o) ==
    CASE o = "Message" -> KhpError(KhpErrorConsumerClosed)
      [] o = "SendMessage" -> KhpError(KhpErrorProducerClosed)
      [] o = "CommitOffset" -> KhpError(KhpErrorOffsetCoordinatorClosed)
      [] o = "FetchOffset" -> KhpError(KhpErrorOffsetCoordinatorClosed)

\* the error of an operation whose select received from timeout
TimeoutError(o) ==
    CASE o = "Message" -> KhpError(KhpErrorReadTimeout)
      [] o = "SendMessage" -> KhpError(KhpErrorWriteTimeout)
      [] o = "CommitOffset" -> KhpError(KhpErrorOffsetCommitTimeout)
      [] o = "FetchOffset" -> KhpError(KhpErrorOffsetFetchTimeout)

\* the configured timeout of an operation
Timeout(o) ==
    CASE o = "Message" -> GetMessageTimeout
      [] o = "SendMessage" -> SendMessageTimeout
      [] o = "CommitOffset" -> CommitOffsetTimeout
      [] o = "FetchOffset" -> FetchOffsetTimeout

\* NewConsumer up to the delegate call that creates the consumer
NewConsumer(t) ==
    /\ Free(t)
    /\ LET b == getBroker IN
        /\ Borrowed(b)
        /\ Called(t, b, "NewConsumer")
    /\ UNCHANGED <<rollingID, cacheVars>>

\* NewConsumer after the delegate call returned err
NewConsumerResult(t, err) ==
    /\ task[t].pc = "NewConsumer"
    /\ IF err # nil
       THEN /\ freeBroker(task[t].brokerID)
            /\ task' = [task EXCEPT ![t] =
                    [@ EXCEPT !.pc = "idle", !.ret = err,
                              !.brokerID = NoBroker]]
       ELSE /\ task' = [task EXCEPT ![t] =
                    [@ EXCEPT !.pc = "idle", !.ret = nil,
                              !.handle = "Consumer", !.opened = TRUE]]
            /\ UNCHANGED <<freeBrokers, deadBrokers, Counters>>
    /\ UNCHANGED <<allBrokers, reconnect, rollingID, cacheVars>>

\* NewProducer: creating the producer is no call to the broker
NewProducer(t) ==
    /\ Free(t)
    /\ LET b == getBroker IN
        /\ Borrowed(b)
        /\ task' = [task EXCEPT ![t] =
                IF b.err = nil
                THEN [CalledTask(t, b, "idle") EXCEPT
                        !.ret = nil, !.handle = "Producer", !.opened = TRUE]
                ELSE CalledTask(t, b, "idle")]
    /\ UNCHANGED <<rollingID, cacheVars>>

\* NewOffsetCoordinator up to the delegate call that creates the coordinator
NewOffsetCoordinator(t) ==
    /\ Free(t)
    /\ LET b == getBroker IN
        /\ Borrowed(b)
        /\ Called(t, b, "NewOffsetCoordinator")
    /\ UNCHANGED <<rollingID, cacheVars>>

\* NewOffsetCoordinator after the delegate call returned err
NewOffsetCoordinatorResult(t, err) ==
    /\ task[t].pc = "NewOffsetCoordinator"
    /\ task' = [task EXCEPT ![t] =
            IF err # nil
            THEN [@ EXCEPT !.pc = "idle", !.ret = err, !.brokerID = NoBroker]
            ELSE [@ EXCEPT !.pc = "idle", !.ret = nil,
                           !.handle = "OffsetCoordinator", !.opened = TRUE]]
    /\ UNCHANGED <<poolVars, cacheVars>>

\* Close without the test of opened
CloseAgain(t, h) ==
    /\ freeBroker(task[t].brokerID)
    /\ task' = [task EXCEPT ![t] = [h EXCEPT !.opened = FALSE]]

\* Close that keeps the id
CloseKeeps(t, h) ==
    /\ task' = [task EXCEPT ![t] = [h EXCEPT !.opened = FALSE]]
    /\ UNCHANGED <<freeBrokers, deadBrokers, Counters>>

\* Close on the handle of t, h being the task when Close changes nothing
Close(t, h) ==
    IF task[t].opened
    THEN /\ freeBroker(task[t].brokerID)
         /\ task' = [task EXCEPT ![t] = [h EXCEPT !.opened = FALSE]]
    ELSE /\ task' = [task EXCEPT ![t] = h]
         /\ UNCHANGED <<freeBrokers, deadBrokers, Counters>>

\* Corrupt that frees the id
CorruptFrees(t, h) ==
    IF ~task[t].opened
    THEN /\ task' = [task EXCEPT ![t] = h]
         /\ UNCHANGED <<freeBrokers, deadBrokers, Counters>>
    ELSE /\ freeBroker(task[t].brokerID)
         /\ task' = [task EXCEPT ![t] = [h EXCEPT !.opened = FALSE]]

\* Corrupt on the handle of t, h being the task when Corrupt changes nothing
Corrupt(t, h) ==
    IF ~task[t].opened
    THEN /\ task' = [task EXCEPT ![t] = h]
         /\ UNCHANGED <<freeBrokers, deadBrokers, Counters>>
    ELSE /\ deadBroker(task[t].brokerID)
         /\ task' = [task EXCEPT ![t] = [h EXCEPT !.opened = FALSE]]

\* an operation without the test of opened
OpenedAlways(t, o) == TRUE

\* whether operation o on a handle goes on to its delegate call
Opened(t, o) == task[t].opened

\* Message, SendMessage, CommitOffset, FetchOffset up to the select
Operation(t, o) ==
    /\ task[t].pc = "idle"
    /\ task[t].handle = HandleOf(o)
    /\ task' = [task EXCEPT ![t] =
            IF ~Opened(t, o)
            THEN [@ EXCEPT !.ret = ClosedError(o)]
            ELSE [@ EXCEPT !.ret = NoCall, !.pc = o]]
    /\ UNCHANGED <<poolVars, cacheVars>>

Message(t) == Operation(t, "Message")
SendMessage(t) == Operation(t, "SendMessage")
CommitOffset(t) == Operation(t, "CommitOffset")
FetchOffset(t) == Operation(t, "FetchOffset")

\* the select of the operation receives from result
OperationResult(t, kafkaErr) ==
    /\ task[t].pc \in HandleOps
    /\ task' = [task EXCEPT ![t] = [@ EXCEPT !.pc = "idle", !.ret = kafkaErr]]
    /\ UNCHANGED <<poolVars, cacheVars>>

\* the select of the operation receives from timeout
OperationTimedOut(t) ==
    /\ task[t].pc \in HandleOps
    /\ Timeout(task[t].pc) > 0
    /\ Corrupt(t, [task[t] EXCEPT !.pc = "idle",
                                  !.ret = TimeoutError(task[t].pc)])
    /\ UNCHANGED <<allBrokers, reconnect, rollingID, cacheVars>>

\* the holder of a handle calls Close
CallClose(t) ==
    /\ task[t].pc = "idle"
    /\ task[t].handle # "none"
    /\ Close(t, [task[t] EXCEPT !.ret = nil])
    /\ UNCHANGED <<allBrokers, reconnect, rollingID, cacheVars>>

\* the holder of a handle calls Corrupt
CallCorrupt(t) ==
    /\ task[t].pc = "idle"
    /\ task[t].handle # "none"
    /\ Corrupt(t, task[t])
    /\ UNCHANGED <<allBrokers, reconnect, rollingID, cacheVars>>

\* the handler that made the handle returns: its deferred Close runs and
\* the handle is dropped
HandlerReturn(t) ==
    /\ task[t].pc = "idle"
    /\ task[t].handle # "none"
    /\ Close(t, [task[t] EXCEPT !.ret = nil, !.handle = "none",
                                !.brokerID = NoBroker])
    /\ UNCHANGED <<allBrokers, reconnect, rollingID, cacheVars>>

----------------------------------------------------------------------------
(* Server.MessageSize and the responses *)

Max(a, b) == IF a > b THEN a ELSE b

\* MessageSize.Get: the stored value, or the fallback when there is none
Get(topic, fallback) ==
    IF MessageSize[topic] = NoSize THEN fallback ELSE MessageSize[topic]

\* a Put that stores the observed value
PutObserved(topic, observed) ==
    /\ MessageSize' = [MessageSize EXCEPT ![topic] = observed]
    /\ puts' = [puts EXCEPT ![topic] = @ \cup {observed}]

\* MessageSize.Put: the stored value becomes max(current, observed)
Put(topic, observed) ==
    /\ MessageSize' = [MessageSize EXCEPT ![topic] =
            IF @ = NoSize THEN observed ELSE Max(@, observed)]
    /\ puts' = [puts EXCEPT ![topic] = @ \cup {observed}]

\* a status that does not tell the errors of the pool from the others
httpStatusInternal(err) == StatusInternalServerError

httpStatusError(err) ==
    IF err.type = "KhpError"
    THEN StatusServiceUnavailable
    ELSE StatusInternalServerError

\* what a handler writes to the response: an error response with its status,
\* the response of a POST (its offset is the handler's), the out-of-range
\* response, and the pieces of the envelope of a GET
Written(piece, status, value) == [piece |-> piece, status |-> status, value |-> value]
errorResponse(status) == Written("error", status, "")
successResponse == Written("success", StatusOK, "")
errorOutOfRange == Written("outOfRange", StatusRequestedRangeNotSatisfiable, "")
Header == Written("{\"query\":..,\"messages\":[", StatusOK, "")
Comma == Written(",", 0, "")
\* a write of no byte of the message
ValueBlank(msg) == Written("value", 0, "")

Value(msg) == Written("value", 0, msg.value)
Closing == Written("]}", 0, "")

\* the mark of a response whose connection connIsAlive found closed: the
\* client is gone and the handler writes nothing more
Lost == Written("connection closed", 0, "")

\* the handler h returns, having written the pieces: its locals are gone,
\* the response is what the client has
Returns(h, pieces) ==
    [IdleHandler EXCEPT !.kind = h.kind, !.response = h.response \o pieces]

\* the offsets a POST has been answered with
Answered ==
    {o \in 0 .. (Len(log) - 1) :
        \A t \in Requests :
            ~(handler[t].pc = "SendMessage" /\ handler[t].offset = o)}

----------------------------------------------------------------------------
(* validRequest, sendHandler *)

\* a handler in call pc whose call has returned
Back(t, pc) == handler[t].pc = pc /\ task[t].pc = "idle"

\* the handler returns with no handle to close: the pool stays as it is
Return(t) ==
    /\ task' = [task EXCEPT ![t] = IdleTask]
    /\ UNCHANGED <<poolVars, cacheVars>>

\* a sendHandler that checks the body after validRequest
sendHandlerLate(t, msg, now) ==
    /\ handler[t].pc = "done"
    /\ FetchMetadata(t, now)
    /\ handler' = [handler EXCEPT ![t] =
            [IdleHandler EXCEPT !.kind = "POST", !.msg = msg, !.pc = "validRequest"]]
    /\ UNCHANGED <<lifeVars, MessageSize, puts, log>>

\* sendHandler up to the FetchMetadata of validRequest
sendHandler(t, msg, now) ==
    /\ handler[t].pc = "done"
    /\ LET h == [IdleHandler EXCEPT !.kind = "POST", !.msg = msg] IN
        IF msg.len > MaxFetchSize \/ ~msg.json
        THEN /\ Free(t)
             /\ handler' = [handler EXCEPT ![t] =
                    Returns(h, <<errorResponse(StatusBadRequest)>>)]
             /\ Return(t)
        ELSE /\ FetchMetadata(t, now)
             /\ handler' = [handler EXCEPT ![t] = [h EXCEPT !.pc = "validRequest"]]
    /\ UNCHANGED <<lifeVars, MessageSize, puts, log>>

\* the body of an offset commit (whether it is JSON, and the offset it gives,
\* -1 when it gives none) and the consumer parameter of the request
Commit(json, offset, consumer) == [json |-> json, offset |-> offset, consumer |-> consumer]

\* commitOffsetHandler up to the FetchMetadata of validRequest
commitOffsetHandler(t, commit, now) ==
    /\ handler[t].pc = "done"
    /\ LET h == [IdleHandler EXCEPT !.kind = "COMMIT", !.offset = commit.offset,
                                    !.consumer = commit.consumer] IN
        IF ~commit.json \/ commit.offset < 0
        THEN /\ Free(t)
             /\ handler' = [handler EXCEPT ![t] =
                    Returns(h, <<errorResponse(StatusBadRequest)>>)]
             /\ Return(t)
        ELSE /\ FetchMetadata(t, now)
             /\ handler' = [handler EXCEPT ![t] = [h EXCEPT !.pc = "validRequest"]]
    /\ UNCHANGED <<lifeVars, MessageSize, puts, log>>

\* getHandler up to the FetchMetadata of validRequest
getHandler(t, now) ==
    /\ handler[t].pc = "done"
    /\ FetchMetadata(t, now)
    /\ handler' = [handler EXCEPT ![t] =
            [IdleHandler EXCEPT !.kind = "GET", !.pc = "validRequest",
                                !.answered = Answered]]
    /\ UNCHANGED <<lifeVars, MessageSize, puts, log>>

\* validRequest after FetchMetadata: the checks of the topic and of the
\* partition against the metadata ("error": a topic of the metadata has an
\* error; "unknown": the topic or the partition is not in the metadata), and
\* the handler up to its next call: NewProducer, GetOffsets, or (after the
\* check of the consumer name) NewOffsetCoordinator
validRequest(t, check) ==
    /\ Back(t, "validRequest")
    /\ LET h == handler[t]
           err == task[t].ret
           status == IF err # nil THEN httpStatusError(err)
                     ELSE IF check = "error" THEN httpStatusError(KafkaError)
                     ELSE StatusBadRequest
       IN IF err # nil \/ check # "ok"
          THEN /\ handler' = [handler EXCEPT ![t] =
                        Returns(h, <<errorResponse(status)>>)]
               /\ Return(t)
          ELSE IF h.kind = "POST"
          THEN /\ NewProducer(t)
               /\ handler' = [handler EXCEPT ![t].pc = "NewProducer"]
          ELSE IF h.kind = "COMMIT" /\ h.consumer = ""
          THEN /\ handler' = [handler EXCEPT ![t] =
                        Returns(h, <<errorResponse(StatusBadRequest)>>)]
               /\ Return(t)
          ELSE IF h.kind = "COMMIT"
          THEN /\ NewOffsetCoordinator(t)
               /\ handler' = [handler EXCEPT ![t].pc = "NewOffsetCoordinator"]
          ELSE /\ GetOffsets(t)
               /\ handler' = [handler EXCEPT ![t].pc = "GetOffsets"]
    /\ UNCHANGED <<lifeVars, MessageSize, puts, log>>

\* sendHandler after NewProducer, up to the select of SendMessage
NewProducerReturns(t) ==
    /\ Back(t, "NewProducer")
    /\ LET err == task[t].ret IN
        IF err # nil
        THEN /\ handler' = [handler EXCEPT ![t] =
                    Returns(@, <<errorResponse(httpStatusError(err))>>)]
             /\ Return(t)
        ELSE /\ SendMessage(t)
             /\ handler' = [handler EXCEPT ![t].pc = "SendMessage"]
    /\ UNCHANGED <<lifeVars, MessageSize, puts, log>>

\* the delegate call of SendMessage returns: with no error, the message is
\* in the partition at the offset the call returns
SendMessageResult(t, kafkaErr) ==
    /\ handler[t].pc = "SendMessage"
    /\ task[t].pc = "SendMessage"
    /\ OperationResult(t, kafkaErr)
    /\ IF kafkaErr = nil
       THEN /\ Len(log) < MaxLog
            /\ log' = Append(log, handler[t].msg)
            /\ handler' = [handler EXCEPT ![t].offset = Len(log)]
       ELSE UNCHANGED <<log, handler>>
    /\ UNCHANGED <<lifeVars, MessageSize, puts>>

\* sendHandler after SendMessage: the response, and the deferred Close
SendMessageReturns(t) ==
    /\ Back(t, "SendMessage")
    /\ HandlerReturn(t)
    /\ LET h == handler[t]
           err == task[t].ret
       IN IF err # nil
          THEN /\ handler' = [handler EXCEPT ![t] =
                    Returns(h, <<errorResponse(httpStatusError(err))>>)]
               /\ UNCHANGED <<MessageSize, puts>>
          ELSE /\ Put(Topic, h.msg.len)
               /\ handler' = [handler EXCEPT ![t] =
                    Returns(h, <<successResponse>>)]
    /\ UNCHANGED <<lifeVars, log>>

\* commitOffsetHandler after NewOffsetCoordinator, up to the select of
\* CommitOffset
NewOffsetCoordinatorReturns(t) ==
    /\ Back(t, "NewOffsetCoordinator")
    /\ LET err == task[t].ret IN
        IF err # nil
        THEN /\ handler' = [handler EXCEPT ![t] =
                    Returns(@, <<errorResponse(httpStatusError(err))>>)]
             /\ Return(t)
        ELSE /\ CommitOffset(t)
             /\ handler' = [handler EXCEPT ![t].pc = "CommitOffset"]
    /\ UNCHANGED <<lifeVars, MessageSize, puts, log>>

\* commitOffsetHandler after CommitOffset: the response, and the deferred
\* Close
CommitOffsetReturns(t) ==
    /\ Back(t, "CommitOffset")
    /\ HandlerReturn(t)
    /\ LET h == handler[t]
           err == task[t].ret
       IN handler' = [handler EXCEPT ![t] =
            Returns(h, <<IF err # nil THEN errorResponse(httpStatusError(err))
                                     ELSE successResponse>>)]
    /\ UNCHANGED <<lifeVars, MessageSize, puts, log>>

----------------------------------------------------------------------------
(* getHandler *)

\* the parameters limit, offset and relative of a GET, each <<>> when it is
\* not given and <<n>> when it is the number n
Query(limit, offset, relative) == [limit |-> limit, offset |-> offset, relative |-> relative]
NotGiven == <<>>
Given(numbers) == {<<n>> : n \in numbers}

\* the limit as it is given, and 1 when it is not given
LengthAsGiven(query) ==
    IF query.limit = NotGiven THEN 1 ELSE query.limit[1]

\* toInt32(varsLength), and 1 when it is not positive
LengthOf(query) ==
    IF query.limit = NotGiven THEN 1
    ELSE IF query.limit[1] <= 0 THEN 1 ELSE query.limit[1]

\* a query.Offset for which the offset parameter comes before relative
OffsetFirst(query, offsetFrom, offsetTo) ==
    IF query.offset # NotGiven THEN query.offset[1]
    ELSE IF query.relative # NotGiven
    THEN IF query.relative[1] >= 0
         THEN offsetFrom + query.relative[1]
         ELSE offsetTo + query.relative[1]
    ELSE offsetFrom

\* query.Offset
OffsetOf(query, offsetFrom, offsetTo) ==
    IF query.relative # NotGiven
    THEN IF query.relative[1] >= 0
         THEN offsetFrom + query.relative[1]
         ELSE offsetTo + query.relative[1]
    ELSE IF query.offset # NotGiven THEN query.offset[1] ELSE offsetFrom

\* a range check that lets the offset offsetTo pass
InRangeInclusive(offset, offsetFrom, offsetTo) ==
    ~(offset < offsetFrom \/ offset > offsetTo)

\* the range check of getHandler
InRange(offset, offsetFrom, offsetTo) ==
    ~(offset < offsetFrom \/ offset >= offsetTo)

\* getHandler after GetOffsets returned offsetFrom, offsetTo: up to
\* ConsumeLoop
GetOffsetsReturns(t, query, offsetFrom, offsetTo) ==
    /\ Back(t, "GetOffsets")
    /\ LET h == handler[t]
           err == task[t].ret
           offset == OffsetOf(query, offsetFrom, offsetTo)
           h1 ==
            IF err # nil
            THEN Returns(h, <<errorResponse(httpStatusError(err))>>)
            ELSE IF ~InRange(offset, offsetFrom, offsetTo)
            THEN Returns(h, <<errorOutOfRange>>)
            ELSE [h EXCEPT !.pc = "ConsumeLoop",
                           !.limit = LengthOf(query),
                           !.length = LengthOf(query),
                           !.start = offset,
                           !.offset = offset,
                           !.offsetTo = offsetTo,
                           !.size = Get(Topic, DefaultFetchSize),
                           !.maxSize = 0,
                           !.successSent = FALSE]
       IN /\ handler' = [handler EXCEPT ![t] = h1]
          /\ IF h1.pc = "done"
             THEN Return(t)
             ELSE UNCHANGED <<poolVars, cacheVars, task>>
    /\ UNCHANGED <<lifeVars, MessageSize, puts, log>>

\* an int32 of Int32Bits bits: the value of x in two's complement
Int32(x) == ((x + 2 ^ (Int32Bits - 1)) % 2 ^ Int32Bits) - 2 ^ (Int32Bits - 1)

\* the largest int32
MaxInt32 == 2 ^ (Int32Bits - 1) - 1

\* cfg.Consumer.MaxFetchSize at the head of ConsumeLoop: the int32 product
\* size * length, and the maximum of the settings when it is more than that
FetchSize(size, length) ==
    LET product == Int32(size * length)
    IN IF product > MaxFetchSize THEN MaxFetchSize ELSE product

\* the head of ConsumeLoop: NewConsumer up to its delegate call
ConsumeLoop(t) ==
    /\ Back(t, "ConsumeLoop")
    /\ NewConsumer(t)
    /\ handler' = [handler EXCEPT
            ![t].pc = "NewConsumer",
            ![t].fetchSize = FetchSize(handler[t].size, handler[t].length),
            ![t].consumers = @ + 1]
    /\ UNCHANGED <<lifeVars, MessageSize, puts, log>>

\* an inner loop that goes on to Message whatever connIsAlive reports
InnerLoopDeaf(t, alive, h) ==
    /\ Message(t)
    /\ UNCHANGED <<allBrokers, reconnect, rollingID>>
    /\ handler' = [handler EXCEPT ![t] = [h EXCEPT !.pc = "Message"]]

\* the head of the inner loop, h being the handler there: connIsAlive, then
\* consumer.Close() and return, or Message up to its select
InnerLoop(t, alive, h) ==
    IF ~alive
    THEN /\ HandlerReturn(t)
         /\ handler' = [handler EXCEPT ![t] = Returns(h, <<Lost>>)]
    ELSE /\ Message(t)
         /\ UNCHANGED <<allBrokers, reconnect, rollingID>>
         /\ handler' = [handler EXCEPT ![t] = [h EXCEPT !.pc = "Message"]]

\* getHandler after NewConsumer
NewConsumerReturns(t, alive) ==
    /\ Back(t, "NewConsumer")
    /\ LET h == [handler[t] EXCEPT !.fetchSize = 0]
           err == task[t].ret
       IN IF err # nil
          THEN /\ handler' = [handler EXCEPT ![t] =
                    Returns(h, IF ~h.successSent
                               THEN <<errorResponse(httpStatusError(err))>>
                               ELSE <<>>)]
               /\ Return(t)
          ELSE InnerLoop(t, alive, h)
    /\ UNCHANGED <<lifeVars, MessageSize, puts, log>>

\* the delegate call of Message returns
MessageResult(t, kafkaErr) ==
    /\ handler[t].pc = "Message"
    /\ task[t].pc = "Message"
    /\ OperationResult(t, kafkaErr)
    /\ UNCHANGED <<lifeVars, serverVars>>

\* an end of the response that puts the fetch size the loop ended with
EndResponsePutsSize(t, h) ==
    /\ handler' = [handler EXCEPT ![t] =
            Returns(h, (IF ~h.successSent THEN <<Header>> ELSE <<>>) \o <<Closing>>)]
    /\ IF h.maxSize > 0
       THEN Put(Topic, h.size)
       ELSE UNCHANGED <<MessageSize, puts>>

\* getHandler after ConsumeLoop, h being the handler there: the end of the
\* envelope, and the Put of the largest value
EndResponse(t, h) ==
    /\ handler' = [handler EXCEPT ![t] =
            Returns(h, (IF ~h.successSent THEN <<Header>> ELSE <<>>) \o <<Closing>>)]
    /\ IF h.maxSize > 0
       THEN Put(Topic, h.maxSize)
       ELSE UNCHANGED <<MessageSize, puts>>

\* a fetch size that grows by one byte
GrowByOne(size) == size + 1

\* size += s.Cfg.Consumer.DefaultFetchSize
Grow(size) == size + DefaultFetchSize

\* a read position that stays at the message it has emitted
NextOffsetSame(offset) == offset

\* offset = msg.Offset + 1, for the message at offset
NextOffset(offset) == offset + 1

\* getHandler after Message: the rest of the pass of the inner loop, and
\* the handler up to its next call or to its return
MessageReturns(t, alive) ==
    /\ Back(t, "Message")
    /\ LET h == handler[t]
           err == task[t].ret
       IN IF err = ErrNoData
          THEN \* notEnoughSize: break, consumer.Close()
               /\ HandlerReturn(t)
               /\ IF h.size >= MaxFetchSize
                  THEN EndResponse(t, h)
                  ELSE /\ handler' = [handler EXCEPT ![t] =
                            [h EXCEPT !.pc = "ConsumeLoop",
                                      !.size = Grow(@)]]
                       /\ UNCHANGED <<MessageSize, puts>>
          ELSE IF err # nil
          THEN /\ HandlerReturn(t)
               /\ handler' = [handler EXCEPT ![t] =
                    Returns(h, IF ~h.successSent
                               THEN <<errorResponse(httpStatusError(err))>>
                               ELSE <<>>)]
               /\ UNCHANGED <<MessageSize, puts>>
          ELSE LET msg == log[h.offset + 1]
                   emitted ==
                    [h EXCEPT !.successSent = TRUE,
                              !.response = @ \o <<IF ~h.successSent THEN Header ELSE Comma,
                                                  Value(msg)>>,
                              !.offset = NextOffset(h.offset),
                              !.length = @ - 1,
                              !.maxSize = Max(@, msg.len)]
               IN IF emitted.offset >= h.offsetTo \/ emitted.length = 0
                  THEN /\ HandlerReturn(t)
                       /\ EndResponse(t, emitted)
                  ELSE /\ InnerLoop(t, alive, emitted)
                       /\ UNCHANGED <<MessageSize, puts>>
    /\ UNCHANGED <<lifeVars, log>>

----------------------------------------------------------------------------
(* The specifications *)

\* the outcomes of a delegate call, and of one lookup of a fetcher (whose
\* retry tells a *proto.KafkaError from the other errors)
Outcomes == {nil, KafkaError}
FetcherOutcomes == {nil} \cup DelegateErrors

\* a step of the client alone: NewClient has returned, Close is not called
\* and no handler moves
Quiet == UNCHANGED <<lifeVars, serverVars>>

\* the goroutines NewClient always starts, and the rolling reconnect
Background ==
    \/ RollingReconnect /\ Quiet
    \/ RollingDead /\ Quiet
    \/ DeadReceive /\ Quiet
    \/ \E id \in BrokerIDs : ReconnectClose(id) /\ Quiet
    \/ \E id \in BrokerIDs : ReconnectDialFails(id) /\ Quiet
    \/ \E id \in BrokerIDs : ReconnectDialOK(id) /\ Quiet

\* The pool with the metadata cache disabled (MetadataCachePeriod = 0, no
\* refresh goroutine), under requests that call any operation of the client
\* and of the session handles.
Next ==
    \/ Background
    \/ \E t \in Requests, e \in Outcomes : GetMetadataResult(t, e) /\ Quiet
    \/ \E t \in Requests : GetMetadataTimedOut(t) /\ Quiet
    \/ \E t \in Requests, now \in Clock : FetchMetadata(t, now) /\ Quiet
    \/ \E t \in Requests : GetOffsets(t) /\ Quiet
    \/ \E t \in Requests : GetOffsetsTimer(t) /\ Quiet
    \/ \E t \in Requests, k \in 1 .. NumOffsets, e \in FetcherOutcomes : Fetcher(t, k, e) /\ Quiet
    \/ \E t \in Requests, c \in {"results", "timeout"} : GetOffsetsLoop(t, c) /\ Quiet
    \/ \E t \in Requests : NewConsumer(t) /\ Quiet
    \/ \E t \in Requests, e \in Outcomes : NewConsumerResult(t, e) /\ Quiet
    \/ \E t \in Requests : NewProducer(t) /\ Quiet
    \/ \E t \in Requests : NewOffsetCoordinator(t) /\ Quiet
    \/ \E t \in Requests, e \in Outcomes : NewOffsetCoordinatorResult(t, e) /\ Quiet
    \/ \E t \in Requests : Message(t) /\ Quiet
    \/ \E t \in Requests : SendMessage(t) /\ Quiet
    \/ \E t \in Requests : CommitOffset(t) /\ Quiet
    \/ \E t \in Requests : FetchOffset(t) /\ Quiet
    \/ \E t \in Requests, e \in Outcomes : OperationResult(t, e) /\ Quiet
    \/ \E t \in Requests : OperationTimedOut(t) /\ Quiet
    \/ \E t \in Requests : CallClose(t) /\ Quiet
    \/ \E t \in Requests : CallCorrupt(t) /\ Quiet
    \/ \E t \in Requests : HandlerReturn(t) /\ Quiet

InitDisabled == Init /\ MetadataCachePeriod = 0

Spec == InitDisabled /\ [][Next]_vars

\* The pool and the metadata cache, disabled or enabled, under requests that
\* call FetchMetadata.
NextCache ==
    \/ Background
    \/ RefreshMetadata /\ Quiet
    \/ RefreshLock /\ Quiet
    \/ \E now \in Clock : RefreshStore(now) /\ Quiet
    \/ \E t \in Tasks, e \in Outcomes : GetMetadataResult(t, e) /\ Quiet
    \/ \E t \in Tasks : GetMetadataTimedOut(t) /\ Quiet
    \/ \E t \in Requests, now \in Clock : FetchMetadata(t, now) /\ Quiet

SpecCache == Init /\ [][NextCache]_vars

\* NewClient at the head of its dial loop
InitNewClient ==
    /\ freeBrokers = <<>>
    /\ deadBrokers = <<>>
    /\ allBrokers = [id \in BrokerIDs |-> "none"]
    /\ Counters = [FreeBrokers |-> 0, DeadBrokers |-> 0]
    /\ reconnect = [id \in BrokerIDs |-> "none"]
    /\ rollingID = NoBroker
    /\ MetadataCachePeriod \in {0, CachePeriod}
    /\ lastMetadata = NoMetadata
    /\ lastUpdateMetadata = 0
    /\ task = [t \in Tasks |-> IdleTask]
    /\ stopReconnect = FALSE
    /\ newClient = [pc |-> "dial", brokerID |-> 0]
    /\ goroutines = {}
    /\ MessageSize = [topic \in Topics |-> NoSize]
    /\ puts = [topic \in Topics |-> {}]
    /\ log = <<>>
    /\ handler = [t \in Requests |-> IdleHandler]

\* The life of a client: NewClient, the goroutines it starts, and Close at
\* any time after NewClient returned.
NextLife ==
    \/ NewClientDialOK
    \/ NewClientDialFails
    \/ ClientClose
    \/ \E g \in {"refresh", "rolling", "dead"} : GoroutineReturn(g)
    \/ Background
    \/ RefreshMetadata /\ Quiet
    \/ RefreshLock /\ Quiet
    \/ \E now \in Clock : RefreshStore(now) /\ Quiet
    \/ \E e \in Outcomes : GetMetadataResult(Refresher, e) /\ Quiet
    \/ GetMetadataTimedOut(Refresher) /\ Quiet

SpecLife == InitNewClient /\ [][NextLife]_vars

\* The life of a client whose goroutines are scheduled: the dead-set
\* goroutine receives when an id is in the dead queue, a reconnect goroutine
\* that was started closes the old connection, and the dials for the last id
\* succeed in the end.  The dials for the other ids may fail for ever.
LastID == NumConns - 1

SpecLifeFair ==
    /\ SpecLife
    /\ WF_vars(DeadReceive /\ Quiet)
    /\ \A id \in BrokerIDs : WF_vars(ReconnectClose(id) /\ Quiet)
    /\ WF_vars(ReconnectDialOK(LastID) /\ Quiet)

\* the last request is a POST, the others are GETs
PostRequests == {NumRequests}
GetRequests == Requests \ PostRequests

\* the queries of the GET requests
Queries ==
    {Query(limit, offset, NotGiven) :
        limit \in {NotGiven} \cup Given(0 .. MaxLimit),
        offset \in {NotGiven} \cup Given(-1 .. MaxLog)}
    \cup {Query(limit, NotGiven, relative) :
        limit \in {NotGiven} \cup Given(0 .. MaxLimit),
        relative \in Given(-1 .. 1)}
    \cup {Query(NotGiven, offset, relative) :
        offset \in Given(-1 .. MaxLog), relative \in Given(-1 .. 1)}

\* the queries for messages from a given offset
QueriesAt ==
    {Query(limit, offset, NotGiven) :
        limit \in Given(1 .. MaxLimit), offset \in Given(0 .. (MaxLog - 1))}

\* the bodies sendHandler accepts, and the partitions made of them
ValidBodies == {msg \in Bodies : msg.json /\ msg.len <= MaxFetchSize}
Logs == UNION {[1 .. n -> ValidBodies] : n \in 0 .. MaxLog}

\* validRequest, for both handlers
ValidRequestSteps ==
    \/ \E t \in Requests, e \in Outcomes : GetMetadataResult(t, e) /\ Quiet
    \/ \E t \in Requests : GetMetadataTimedOut(t) /\ Quiet
    \/ \E t \in Requests, check \in {"ok", "error", "unknown"} : validRequest(t, check)

\* sendHandler after validRequest
SendSteps ==
    \/ \E t \in Requests : NewProducerReturns(t)
    \/ \E t \in Requests, e \in Outcomes : SendMessageResult(t, e)
    \/ \E t \in Requests : OperationTimedOut(t) /\ task[t].pc = "SendMessage" /\ Quiet
    \/ \E t \in Requests : SendMessageReturns(t)

\* getHandler after validRequest, the queries and the outcomes of the
\* lookups of GetOffsets being among the given ones
GetSteps(queries, outcomes) ==
    \/ \E t \in Requests : GetOffsetsTimer(t) /\ Quiet
    \/ \E t \in Requests, k \in 1 .. NumOffsets, e \in outcomes : Fetcher(t, k, e) /\ Quiet
    \/ \E t \in Requests, c \in {"results", "timeout"} : GetOffsetsLoop(t, c) /\ Quiet
    \/ \E t \in Requests, query \in queries, offsetFrom \in 0 .. Len(log) :
            GetOffsetsReturns(t, query, offsetFrom, Len(log))
    \/ \E t \in Requests : ConsumeLoop(t)
    \/ \E t \in Requests, e \in Outcomes : NewConsumerResult(t, e) /\ Quiet
    \/ \E t \in Requests, alive \in BOOLEAN : NewConsumerReturns(t, alive)
    \/ \E t \in Requests, e \in Outcomes \cup {ErrNoData} : MessageResult(t, e)
    \/ \E t \in Requests : OperationTimedOut(t) /\ task[t].pc = "Message" /\ Quiet
    \/ \E t \in Requests, alive \in BOOLEAN : MessageReturns(t, alive)

\* the server has served no request: the partition holds any messages and
\* MessageSize any value that was put
InitGet ==
    /\ InitClient
    /\ MetadataCachePeriod = 0
    /\ handler = [t \in Requests |-> IdleHandler]
    /\ log \in Logs
    /\ \E size \in {NoSize} \cup {msg.len : msg \in ValidBodies} :
        /\ MessageSize = [topic \in Topics |-> size]
        /\ puts = [topic \in Topics |-> {size} \ {NoSize}]

\* The GET requests: the pool with the metadata cache disabled, under GET
\* requests with any query to a partition nothing is added to.  With the
\* cache disabled the reading of the clock plays no role.
NextGet ==
    \/ Background
    \/ \E t \in GetRequests : getHandler(t, MaxClock)
    \/ ValidRequestSteps
    \/ GetSteps(Queries, FetcherOutcomes)

SpecGet == InitGet /\ [][NextGet]_vars

\* a step of the handler of request t that is in ConsumeLoop
LoopStep(t) ==
    \/ ConsumeLoop(t)
    \/ \E e \in Outcomes : NewConsumerResult(t, e) /\ Quiet
    \/ \E alive \in BOOLEAN : NewConsumerReturns(t, alive)
    \/ \E e \in Outcomes \cup {ErrNoData} : MessageResult(t, e)
    \/ OperationTimedOut(t) /\ task[t].pc = "Message" /\ Quiet
    \/ \E alive \in BOOLEAN : MessageReturns(t, alive)

\* The GET requests, every handler that is in ConsumeLoop taking its next
\* step: the goroutine of a handler is scheduled, and each call of the
\* client returns, with the result of the delegate call or at its deadline.
SpecGetFair == SpecGet /\ \A t \in GetRequests : WF_vars(LoopStep(t))

\* The server: the pool with the metadata cache disabled, under POST
\* requests and GET requests for messages from a given offset to the same
\* partition, empty at first.  No lookup of GetOffsets is tried again.
NextServer ==
    \/ Background
    \/ \E t \in PostRequests, msg \in Bodies : sendHandler(t, msg, MaxClock)
    \/ \E t \in GetRequests : getHandler(t, MaxClock)
    \/ ValidRequestSteps
    \/ SendSteps
    \/ GetSteps(QueriesAt, Outcomes)

SpecServer == InitDisabled /\ [][NextServer]_vars

----------------------------------------------------------------------------
(* Where a session id is *)

Occurrences(q, id) == Cardinality({i \in DOMAIN q : q[i] = id})

\* the calls that hold the id they borrowed until they return
BorrowingCalls == {"GetMetadata", "GetOffsets", "NewConsumer", "NewOffsetCoordinator"}

\* task t is a caller the id is lent to: it is in a call that borrowed the
\* id, or it holds an opened session handle on the id
Holds(t, id) ==
    /\ task[t].brokerID = id
    /\ task[t].pc \in BorrowingCalls \/ task[t].opened

\* the number of callers the id is lent to
InUse(id) ==
    Cardinality({t \in Tasks : Holds(t, id)}) + (IF rollingID = id THEN 1 ELSE 0)

InUseIDs == {id \in BrokerIDs : InUse(id) > 0}

\* the number of times the id is in the dead set: in the dead queue or with
\* its reconnect goroutine
Dead(id) ==
    Occurrences(deadBrokers, id) + (IF reconnect[id] # "none" THEN 1 ELSE 0)

\* the steps of freeBroker(id) and deadBroker(id) on the queues and counters
Released(id) ==
    /\ freeBrokers' = Append(freeBrokers, id)
    /\ deadBrokers' = deadBrokers
    /\ Counters' = [Counters EXCEPT !.FreeBrokers = @ + 1]

Quarantined(id) ==
    /\ deadBrokers' = Append(deadBrokers, id)
    /\ freeBrokers' = freeBrokers
    /\ Counters' = [Counters EXCEPT !.DeadBrokers = @ + 1]

PoolSame == UNCHANGED <<freeBrokers, deadBrokers, Counters>>

NoBrokers == KhpError(KhpErrorNoBrokers)

----------------------------------------------------------------------------
(* Claims *)

\* C1: pool accounting.  In every reachable state each session id is in
\* exactly one of free (once in the free queue), in-use (lent to exactly one
\* caller) and dead (once in the dead queue, or being reconnected).
PoolAccounting ==
    \A id \in BrokerIDs :
        Occurrences(freeBrokers, id) + InUse(id) + Dead(id) = 1

\* C2: non-blocking borrow.  Whenever the free queue is empty, every call
\* that borrows (by a request or by the rolling reconnect) can take its step
\* at once, and every such step ends the call with NoBrokers and leaves the
\* free queue as it is.
BorrowFails(t) ==
    /\ task'[t].pc = "idle"
    /\ task'[t].ret = NoBrokers
    /\ freeBrokers' = freeBrokers

NonBlockingBorrow ==
    Len(freeBrokers) = 0 =>
        /\ rollingID = NoBroker =>
            /\ ENABLED (RollingReconnect /\ rollingID' = NoBroker)
            /\ ~ENABLED (RollingReconnect /\ rollingID' # NoBroker)
        /\ \A t \in Requests : Free(t) =>
            /\ ENABLED (NewConsumer(t) /\ BorrowFails(t))
            /\ ~ENABLED (NewConsumer(t) /\ ~BorrowFails(t))
            /\ ENABLED (NewProducer(t) /\ BorrowFails(t))
            /\ ~ENABLED (NewProducer(t) /\ ~BorrowFails(t))
            /\ ENABLED (NewOffsetCoordinator(t) /\ BorrowFails(t))
            /\ ~ENABLED (NewOffsetCoordinator(t) /\ ~BorrowFails(t))
            /\ ENABLED (GetOffsets(t) /\ BorrowFails(t))
            /\ ~ENABLED (GetOffsets(t) /\ ~BorrowFails(t))
            /\ ENABLED (GetMetadata(t) /\ BorrowFails(t))
            /\ ~ENABLED (GetMetadata(t) /\ ~BorrowFails(t))

\* a request was refused with NoBrokers while the other request and the
\* rolling reconnect hold the ids
NonBlockingBorrowWitness ==
    /\ Len(freeBrokers) = 0
    /\ \E t, u \in Requests :
        /\ task[t].pc = "idle" /\ task[t].ret = NoBrokers
        /\ task[u].brokerID # NoBroker /\ Holds(u, task[u].brokerID)

\* C3: session hygiene.  A caller gives up an id it borrowed only in a step
\* that is freeBroker or deadBroker on that id: no path of a call, the
\* failure of the delegate call that creates the sub-session included, ends
\* the caller's hold on the id without one of them.
SessionHygiene ==
    [][\A id \in BrokerIDs :
        /\ \A t \in Requests :
            Holds(t, id) /\ ~Holds(t, id)' => Released(id) \/ Quarantined(id)
        /\ rollingID = id /\ rollingID' # id => Released(id) \/ Quarantined(id)
      ]_vars

\* C4: deadline implies quarantine.  The step in which an operation's
\* deadline ends the call puts the id in the dead queue and not in the free
\* queue; an id in the dead set is in the free queue of no state and lent to
\* no caller; an id is lent only when it is not dead and bound to an open
\* connection; and an id leaves the dead set only in the step of its
\* reconnect goroutine after a successful dial, which binds the id to the
\* new connection and frees it.
DeadlineEnds(t) ==
    \/ GetMetadataTimedOut(t)
    \/ OperationTimedOut(t)
    \/ \E c \in {"results", "timeout"} :
        /\ GetOffsetsLoop(t, c)
        /\ task'[t].pc = "idle"
        /\ c = "timeout" \/ task[t].offsets.isTimeout

DeadNotBorrowed ==
    \A id \in BrokerIDs :
        Dead(id) > 0 => Occurrences(freeBrokers, id) = 0 /\ InUse(id) = 0

DeadlineQuarantine ==
    /\ []DeadNotBorrowed
    /\ [][/\ \A t \in Requests :
                DeadlineEnds(t) => Quarantined(task[t].brokerID)
          /\ \A id \in BrokerIDs :
                /\ InUse(id)' > InUse(id) =>
                        Dead(id) = 0 /\ allBrokers[id] = "open"
                /\ Dead(id) > 0 /\ Dead(id)' = 0 =>
                        /\ reconnect[id] = "dial"
                        /\ allBrokers'[id] = "open"
                        /\ Released(id)
         ]_vars

TimeoutErrnos ==
    {KhpErrorReadTimeout, KhpErrorWriteTimeout, KhpErrorOffsetCommitTimeout,
     KhpErrorOffsetFetchTimeout, KhpErrorMetadataReadTimeout}

\* an operation on a session handle timed out and the id of the handle is
\* with its reconnect goroutine, the old connection closed
DeadlineQuarantineWitness ==
    \E t \in Requests :
        /\ task[t].handle # "none" /\ ~task[t].opened
        /\ task[t].ret.type = "KhpError" /\ task[t].ret.Errno \in TimeoutErrnos
        /\ reconnect[task[t].brokerID] = "dial"
        /\ allBrokers[task[t].brokerID] = "closed"

\* C5: the error of a deadline.  Whenever one of the six operations ends
\* because its deadline fired, which is whenever it ends and quarantines its
\* session, it returns its timeout error: MetadataReadTimeout for
\* GetMetadata, ReadTimeout for GetOffsets and Message, WriteTimeout for
\* SendMessage, OffsetCommitTimeout for CommitOffset, OffsetFetchTimeout for
\* FetchOffset.
DeadlineErrno(o) ==
    CASE o = "GetMetadata" -> KhpErrorMetadataReadTimeout
      [] o = "GetOffsets" -> KhpErrorReadTimeout
      [] o = "Message" -> KhpErrorReadTimeout
      [] o = "SendMessage" -> KhpErrorWriteTimeout
      [] o = "CommitOffset" -> KhpErrorOffsetCommitTimeout
      [] o = "FetchOffset" -> KhpErrorOffsetFetchTimeout

BrokerOperations ==
    {"GetMetadata", "GetOffsets", "Message", "SendMessage", "CommitOffset", "FetchOffset"}

DeadlineError ==
    [][\A t \in Requests :
        /\ task[t].pc \in BrokerOperations
        /\ task'[t].pc = "idle"
        /\ DeadlineEnds(t) \/ Quarantined(task[t].brokerID)
        => /\ task'[t].ret = KhpError(DeadlineErrno(task[t].pc))
           /\ Quarantined(task[t].brokerID)
      ]_vars

\* C6: the TTL of the metadata cache.  A FetchMetadata call at time now,
\* with caching enabled and a snapshot stored at time lastUpdateMetadata
\* with |now - lastUpdateMetadata| < MetadataCachePeriod, returns the cached
\* snapshot and leaves the pool alone; any other FetchMetadata call is
\* GetMetadata through the pool: it borrows the head of the free queue and
\* calls the broker, or fails with NoBrokers.
Abs(x) == IF x < 0 THEN -x ELSE x

WithinTTL(now) ==
    /\ MetadataCachePeriod > 0
    /\ lastMetadata # NoMetadata
    /\ Abs(now - lastUpdateMetadata) < MetadataCachePeriod

ThroughPool(t) ==
    IF Len(freeBrokers) > 0
    THEN /\ task'[t].pc = "GetMetadata"
         /\ task'[t].brokerID = Head(freeBrokers)
         /\ freeBrokers' = Tail(freeBrokers)
    ELSE /\ task'[t].pc = "idle"
         /\ task'[t].ret = NoBrokers
         /\ task'[t].meta = NoMetadata

MetadataCacheTTL ==
    [][\A t \in Requests, now \in Clock :
        FetchMetadata(t, now) =>
            IF WithinTTL(now)
            THEN /\ task'[t].pc = "idle"
                 /\ task'[t].ret = nil
                 /\ task'[t].meta = lastMetadata
                 /\ UNCHANGED poolVars
            ELSE ThroughPool(t)
      ]_vars

\* one request got the cached snapshot and the other, the cache enabled and
\* filled, is in GetMetadata
MetadataCacheTTLWitness ==
    \E t, u \in Requests :
        /\ task[t].pc = "idle" /\ task[t].meta = "refreshed"
        /\ MetadataCachePeriod > 0 /\ lastMetadata # NoMetadata
        /\ task[u].pc = "GetMetadata"

\* C7: exclusive ownership.  No id is lent to two callers (requests or the
\* rolling reconnect) at a time, and an id that is lent is not in the free
\* queue, so that no borrow returns it.
ExclusiveOwnership ==
    \A id \in BrokerIDs :
        /\ InUse(id) <= 1
        /\ InUse(id) = 1 => Occurrences(freeBrokers, id) = 0

\* every id is lent: the two requests hold opened handles
ExclusiveOwnershipWitness ==
    \E t, u \in Requests :
        /\ t # u
        /\ task[t].opened /\ task[u].opened
        /\ task[t].pc \in HandleOps

\* C8: Close and Corrupt are idempotent and mutually exclusive.  On an
\* opened handle Close (called, or deferred by the handler) is freeBroker on
\* the id of the handle and Corrupt (called, or by a deadline) is deadBroker
\* on it; both leave the handle not opened; on a handle that is not opened
\* they change neither a queue nor a counter, and the handle is never opened
\* again.
CloseCorruptIdempotent ==
    [][\A t \in Requests :
        /\ CallClose(t) \/ HandlerReturn(t) =>
            /\ IF task[t].opened THEN Released(task[t].brokerID) ELSE PoolSame
            /\ ~task'[t].opened
        /\ CallCorrupt(t) \/ OperationTimedOut(t) =>
            /\ IF task[t].opened THEN Quarantined(task[t].brokerID) ELSE PoolSame
            /\ ~task'[t].opened
        /\ task[t].handle # "none" /\ ~task[t].opened /\ task'[t] # task[t] =>
            /\ PoolSame
            /\ ~task'[t].opened
      ]_vars

\* the handle of one request was closed, its id in the free queue, and the
\* handle of the other was corrupted, its id in the dead set
CloseCorruptIdempotentWitness ==
    \E t, u \in Requests :
        /\ task[t].handle # "none" /\ ~task[t].opened /\ task[t].ret = nil
        /\ Occurrences(freeBrokers, task[t].brokerID) = 1
        /\ task[u].handle # "none" /\ ~task[u].opened
        /\ Dead(task[u].brokerID) = 1

\* C9: operating on a closed or corrupted handle.  On a handle that is not
\* opened each operation can take its step at once, and every such step
\* returns the lifecycle error of the handle (Message: ConsumerClosed,
\* SendMessage: ProducerClosed, CommitOffset and FetchOffset:
\* OffsetCoordinatorClosed), makes no delegate call and leaves the pool
\* alone; a handle whose operation timed out is not opened, and a delegate
\* call runs only on an opened handle.
Refused(t, errno) ==
    /\ task'[t].pc = "idle"
    /\ task'[t].ret = KhpError(errno)
    /\ UNCHANGED poolVars

ClosedHandleFails ==
    \A t \in Requests :
        /\ task[t].pc \in HandleOps => task[t].opened
        /\ /\ task[t].pc = "idle"
           /\ task[t].handle # "none"
           /\ task[t].ret.type = "KhpError"
           /\ task[t].ret.Errno \in TimeoutErrnos
           => ~task[t].opened
        /\ task[t].pc = "idle" /\ task[t].handle = "Consumer" /\ ~task[t].opened =>
            /\ ENABLED (Message(t) /\ Refused(t, KhpErrorConsumerClosed))
            /\ ~ENABLED (Message(t) /\ ~Refused(t, KhpErrorConsumerClosed))
        /\ task[t].pc = "idle" /\ task[t].handle = "Producer" /\ ~task[t].opened =>
            /\ ENABLED (SendMessage(t) /\ Refused(t, KhpErrorProducerClosed))
            /\ ~ENABLED (SendMessage(t) /\ ~Refused(t, KhpErrorProducerClosed))
        /\ task[t].pc = "idle" /\ task[t].handle = "OffsetCoordinator" /\ ~task[t].opened =>
            /\ ENABLED (CommitOffset(t) /\ Refused(t, KhpErrorOffsetCoordinatorClosed))
            /\ ~ENABLED (CommitOffset(t) /\ ~Refused(t, KhpErrorOffsetCoordinatorClosed))
            /\ ENABLED (FetchOffset(t) /\ Refused(t, KhpErrorOffsetCoordinatorClosed))
            /\ ~ENABLED (FetchOffset(t) /\ ~Refused(t, KhpErrorOffsetCoordinatorClosed))

\* a Message on a consumer that is not opened returned ConsumerClosed
ClosedHandleFailsWitness ==
    \E t \in Requests :
        /\ task[t].handle = "Consumer" /\ ~task[t].opened
        /\ task[t].ret = KhpError(KhpErrorConsumerClosed)

\* C10: capacity and lifecycle errors leave the pool unchanged.  A call of a
\* request that returns NoBrokers or a *Closed error changes neither the
\* free queue, nor the dead queue, nor the set of ids in use, nor a counter.
LifecycleErrnos ==
    {KhpErrorConsumerClosed, KhpErrorProducerClosed, KhpErrorOffsetCoordinatorClosed}

CallOf(t) ==
    \/ GetMetadata(t) \/ GetOffsets(t)
    \/ NewConsumer(t) \/ NewProducer(t) \/ NewOffsetCoordinator(t)
    \/ Message(t) \/ SendMessage(t) \/ CommitOffset(t) \/ FetchOffset(t)

RefusedCallsKeepPool ==
    [][\A t \in Requests :
        /\ CallOf(t)
        /\ task'[t].ret.type = "KhpError"
        /\ task'[t].ret.Errno \in LifecycleErrnos \cup {KhpErrorNoBrokers}
        => /\ PoolSame
           /\ InUseIDs' = InUseIDs
      ]_vars

\* one request was refused with NoBrokers, the other with a *Closed error
RefusedCallsKeepPoolWitness ==
    \E t, u \in Requests :
        /\ task[t].pc = "idle" /\ task[t].ret = NoBrokers
        /\ task[u].ret.type = "KhpError" /\ task[u].ret.Errno \in LifecycleErrnos

\* C20: the protocol of GetMetadata.  While a request is in the select of a
\* GetMetadata call that borrowed an id, the call can end in two ways and each
\* is one transition of the pool: on the result of the delegate call, with
\* any outcome, it frees the id and returns the delegate's error as it is; on
\* the deadline it quarantines the id and returns MetadataReadTimeout.  The
\* step of the deadline is enabled whatever the delegate call does: the call
\* does not wait for it.
GetMetadataReturns(t, err) ==
    /\ task'[t].pc = "idle"
    /\ task'[t].ret = err
    /\ task'[t].brokerID = NoBroker
    /\ UNCHANGED <<allBrokers, reconnect, rollingID>>

GetMetadataProtocol ==
    \A t \in Requests : task[t].pc = "GetMetadata" =>
        LET id == task[t].brokerID
            timedOut == KhpError(KhpErrorMetadataReadTimeout) IN
        /\ id \in BrokerIDs
        /\ \A e \in Outcomes :
            /\ ENABLED (GetMetadataResult(t, e)
                            /\ Released(id) /\ GetMetadataReturns(t, e))
            /\ ~ENABLED (GetMetadataResult(t, e)
                            /\ ~(Released(id) /\ GetMetadataReturns(t, e)))
        /\ ENABLED (GetMetadataTimedOut(t)
                        /\ Quarantined(id) /\ GetMetadataReturns(t, timedOut))
        /\ ~ENABLED (GetMetadataTimedOut(t)
                        /\ ~(Quarantined(id) /\ GetMetadataReturns(t, timedOut)))

\* one request is in the select of GetMetadata on an id it borrowed, while
\* another returned from GetMetadata with the error of the delegate call and
\* a snapshot, and its id is back in the free queue
GetMetadataProtocolWitness ==
    \E t, u \in Requests :
        /\ task[t].pc = "GetMetadata"
        /\ task[u].pc = "idle" /\ task[u].ret = KafkaError
        /\ task[u].meta = Snapshot(u)
        /\ Len(freeBrokers) = NumConns - 1

\* C17: shutdown.  Once Close has closed stopReconnect, every connection of
\* the pool is closed and stays so, and no step dials or installs a
\* connection for an id or puts an id in the free queue.
Shutdown ==
    /\ [](stopReconnect /\ newClient.pc = "started" =>
            \A id \in BrokerIDs : allBrokers[id] = "closed")
    /\ [][stopReconnect =>
            /\ \A id \in BrokerIDs :
                    allBrokers'[id] = "open" => allBrokers[id] = "open"
            /\ \A id \in BrokerIDs :
                    Occurrences(freeBrokers', id) <= Occurrences(freeBrokers, id)
         ]_vars

\* C18: startup.  While NewClient dials, no goroutine runs.  The step in
\* which NewClient returns the client leaves the ids 0 .. NumConns-1 in the
\* free queue, each once and bound to an open connection, none lent and none
\* dead.  When a dial failed, NewClient has returned with every connection it
\* dialed closed and no goroutine started.
NoGoroutine ==
    /\ goroutines = {}
    /\ rollingID = NoBroker
    /\ \A id \in BrokerIDs : reconnect[id] = "none"
    /\ task[Refresher].pc = "idle"

Startup ==
    /\ [](newClient.pc = "dial" => NoGoroutine)
    /\ [](newClient.pc = "failed" =>
            /\ NoGoroutine
            /\ \A id \in BrokerIDs :
                    allBrokers[id] = IF id < newClient.brokerID
                                     THEN "closed" ELSE "none")
    /\ [][newClient.pc = "dial" /\ newClient'.pc = "started" =>
            /\ freeBrokers' = [i \in 1 .. NumConns |-> i - 1]
            /\ deadBrokers' = <<>>
            /\ \A id \in BrokerIDs :
                    /\ allBrokers'[id] = "open"
                    /\ InUse(id)' = 0
                    /\ Dead(id)' = 0
         ]_vars

\* the second dial of NewClient failed: the connection of id 0 is closed
StartupWitness ==
    /\ newClient.pc = "failed"
    /\ newClient.brokerID = 1
    /\ allBrokers[0] = "closed"

\* C13: range pre-check.  When GetOffsets has returned offsetFrom and
\* offsetTo with no error, a read whose resolved start offset is below
\* offsetFrom, or is offsetTo or more, is answered with the out-of-range
\* response alone and the handler returns, with no NewConsumer call; any
\* other read goes to ConsumeLoop with that start offset.  A handler that is
\* in ConsumeLoop, and so every NewConsumer call of a handler, has a start
\* offset below offsetTo, and no handler outside ConsumeLoop is in NewConsumer.
Rejected(t) ==
    /\ handler'[t].pc = "done"
    /\ handler'[t].response = handler[t].response \o <<errorOutOfRange>>
    /\ task'[t] = IdleTask

Admitted(t, offset, offsetTo) ==
    /\ handler'[t].pc = "ConsumeLoop"
    /\ handler'[t].start = offset
    /\ handler'[t].offsetTo = offsetTo
    /\ handler'[t].consumers = 0

InLoop(t) == handler[t].pc \in {"ConsumeLoop", "NewConsumer", "Message"}

RangePreCheck ==
    \A t \in GetRequests :
        /\ Back(t, "GetOffsets") /\ task[t].ret = nil =>
            \A query \in Queries, offsetFrom \in 0 .. Len(log) :
                LET offsetTo == Len(log)
                    offset == OffsetOf(query, offsetFrom, offsetTo)
                IN /\ ENABLED GetOffsetsReturns(t, query, offsetFrom, offsetTo)
                   /\ IF offset < offsetFrom \/ offset >= offsetTo
                      THEN ~ENABLED (/\ GetOffsetsReturns(t, query, offsetFrom, offsetTo)
                                     /\ ~Rejected(t))
                      ELSE ~ENABLED (/\ GetOffsetsReturns(t, query, offsetFrom, offsetTo)
                                     /\ ~Admitted(t, offset, offsetTo))
        /\ InLoop(t) => 0 <= handler[t].start /\ handler[t].start < handler[t].offsetTo
        /\ task[t].pc = "NewConsumer" \/ handler[t].consumers > 0 => InLoop(t)

\* a read of a partition that holds messages was answered with the
\* out-of-range response alone
RangePreCheckWitness ==
    \E t \in GetRequests :
        /\ handler[t].pc = "done"
        /\ handler[t].response = <<errorOutOfRange>>
        /\ Len(log) > 0

\* C12: termination of the read loop.  For every limit, every starting
\* size (the default, or any value stored for the topic, smaller than the
\* default included) and every stream of results of the delegate calls, a
\* handler that enters ConsumeLoop returns, and it calls NewConsumer at most
\* ceil(MaxFetchSize / DefaultFetchSize) times.
Ceil(a, b) == (a + b - 1) \div b

Sessions(n) == \A t \in GetRequests : handler[t].consumers <= n

LoopEnds == \A t \in GetRequests : InLoop(t) ~> handler[t].pc = "done"

LoopError(t) ==
    /\ handler[t].pc \in {"NewConsumer", "Message"}
    /\ Back(t, handler[t].pc)
    /\ task[t].ret \notin {nil, ErrNoData}
    /\ handler'[t].pc = "done"

PartialRead ==
    [][\A t \in GetRequests :
        LoopError(t) =>
            handler'[t].response =
                IF handler[t].successSent
                THEN handler[t].response \o <<Closing>>
                ELSE <<errorResponse(httpStatusError(task[t].ret))>>
      ]_vars

\* C15: response framing of a read.  The response of a GET whose client is
\* there is, once the handler has returned, either one error response or the
\* envelope: the header once and first, the messages with exactly one comma
\* between two of them, and the closing bracket once and last, the header
\* followed directly by the closing bracket when there is no message.  What
\* a handler has written before it returns, or before the client was found
\* gone, is nothing or the header, the messages and the commas between them.
Messages(response) == SelectSeq(response, LAMBDA w : w.piece = "value")

RECURSIVE Joined(_)
Joined(values) ==
    IF Len(values) = 0 THEN <<>>
    ELSE IF Len(values) = 1 THEN values
    ELSE Joined(SubSeq(values, 1, Len(values) - 1)) \o <<Comma, values[Len(values)]>>

Envelope(response) ==
    response = <<Header>> \o Joined(Messages(response)) \o <<Closing>>

Begun(response) ==
    \/ response = <<>>
    \/ /\ Messages(response) # <<>>
       /\ response = <<Header>> \o Joined(Messages(response))

ErrorAlone(response) ==
    /\ Len(response) = 1
    /\ response[1].piece \in {"error", "outOfRange"}

Framing ==
    \A t \in GetRequests :
        LET response == handler[t].response
            n == Len(response)
        IN IF handler[t].pc # "done" \/ handler[t].kind = "none"
           THEN Begun(response)
           ELSE IF response[n] = Lost
           THEN Begun(SubSeq(response, 1, n - 1))
           ELSE ErrorAlone(response) \/ Envelope(response)

\* C11: the size stored for a topic.  In every reachable state, whatever the
\* interleaving of the POST and GET handlers that put, the value stored for
\* a topic is the largest of the values put for it so far; no step makes it
\* smaller; and Get returns its fallback when nothing was put for the topic,
\* and the stored value, whatever the fallback, when something was.
Largest(sizes) == CHOOSE size \in sizes : \A other \in sizes : other <= size

Fallbacks == {0, DefaultFetchSize, MaxFetchSize + 1}

SizeIsLargest ==
    \A topic \in Topics :
        IF puts[topic] = {}
        THEN /\ MessageSize[topic] = NoSize
             /\ \A fallback \in Fallbacks : Get(topic, fallback) = fallback
        ELSE /\ MessageSize[topic] = Largest(puts[topic])
             /\ \A fallback \in Fallbacks : Get(topic, fallback) = Largest(puts[topic])

MessageSizeMonotonic ==
    /\ []SizeIsLargest
    /\ [][\A topic \in Topics : MessageSize'[topic] >= MessageSize[topic]]_vars

\* POSTs have put the sizes of a small and of a larger message and a GET the
\* size of the small one it read: the larger one is stored
MessageSizeMonotonicWitness ==
    /\ puts[Topic] = {SmallBody, DefaultFetchSize + 1}
    /\ MessageSize[Topic] = DefaultFetchSize + 1
    /\ Len(log) >= 1 /\ log[Len(log)].len = DefaultFetchSize + 1
    /\ \E t \in GetRequests :
        /\ handler[t].pc = "done"
        /\ Envelope(handler[t].response)
        /\ Len(Messages(handler[t].response)) = 1
        /\ Messages(handler[t].response)[1].value = "p"

\* C16: round trip.  A GET with limit 1 whose offset is the offset a POST was
\* answered with before the GET came returns, whatever the other requests
\* do to the pool, the envelope whose messages array holds one element, the
\* bytes of the body of that POST.
RoundTripReturns(t) ==
    /\ InLoop(t)
    /\ handler[t].limit = 1
    /\ handler[t].start \in handler[t].answered
    /\ handler'[t].pc = "done"

TheMessage(response, offset) ==
    /\ Len(response) = 3
    /\ response[1] = Header
    /\ response[2].piece = "value"
    /\ response[2].value = log[offset + 1].value
    /\ response[3] = Closing

RoundTrip ==
    [][\A t \in GetRequests :
        RoundTripReturns(t) => TheMessage(handler'[t].response, handler[t].start)
      ]_vars

\* C16, amended: such a GET returns that envelope, or one error response
\* with status 503 or 500 (the pool has no free id, or a call of the client
\* failed or timed out), or the envelope with no message (the broker
\* answered 'no data' up to the largest fetch size), or finds its client
\* gone; it never returns other bytes.
RoundTripAmended ==
    [][\A t \in GetRequests :
        RoundTripReturns(t) =>
            LET response == handler'[t].response IN
                \/ TheMessage(response, handler[t].start)
                \/ response \in {<<errorResponse(StatusServiceUnavailable)>>,
                                 <<errorResponse(StatusInternalServerError)>>}
                \/ response = <<Header, Closing>>
                \/ response = <<Lost>>
      ]_vars

\* a GET with limit 1 that came after the POST of its offset was answered
\* has the message from the broker, the partition holding two different
\* messages
RoundTripWitness ==
    \E t \in GetRequests :
        /\ Back(t, "Message") /\ task[t].ret = nil
        /\ handler[t].limit = 1
        /\ handler[t].start \in handler[t].answered
        /\ Len(log) = 2 /\ log[1] # log[2]

\* C19: the status of a failure.  Whenever a call of the client made by a
\* handler, of a POST or of a GET, ends with an error (other than 'no data'),
\* the handler answers with one error response and returns, making no other
\* call: with status 503 when the error is an error of the pool (NoBrokers,
\* a timeout, a closed handle), with status 500 for any other error.  And a
\* POST that comes when no id is free has its first call ended at once with
\* NoBrokers, so that it is answered 503 and SendMessage is not called.
AppErrnos == {KhpErrorNoBrokers} \cup TimeoutErrnos \cup LifecycleErrnos

StatusOf(err) ==
    IF err.type = "KhpError" /\ err.Errno \in AppErrnos
    THEN StatusServiceUnavailable
    ELSE StatusInternalServerError

HandlerCalls ==
    {"validRequest", "NewProducer", "SendMessage", "GetOffsets", "NewConsumer", "Message"}

CallFailed(t) ==
    /\ handler[t].pc \in HandlerCalls
    /\ Back(t, handler[t].pc)
    /\ task[t].ret.type \in {"KhpError", "*proto.KafkaError", "error"}

Answers(t, pieces) ==
    /\ handler'[t].pc = "done"
    /\ handler'[t].response = handler[t].response \o pieces
    /\ task'[t].pc = "idle"

NoFreeID(t) ==
    /\ Len(freeBrokers) = 0
    /\ handler[t].pc = "done" /\ handler'[t].pc = "validRequest"
    => /\ task'[t].pc = "idle" /\ task'[t].ret = NoBrokers
       /\ log' = log

RefreshFails ==
    /\ task[Refresher].pc \in {"idle", "GetMetadata"}
    /\ task'[Refresher] # task[Refresher]
    /\ task'[Refresher].pc = "idle"

MetadataRefresh ==
    [][/\ RefreshFails => UNCHANGED cacheVars /\ task'[Refresher].meta = NoMetadata
       /\ lastMetadata' # lastMetadata =>
            /\ task[Refresher].pc = "store" /\ task'[Refresher].pc = "stamp"
            /\ lastMetadata' = Snapshot(Refresher)
       /\ lastUpdateMetadata' # lastUpdateMetadata =>
            /\ task[Refresher].pc = "stamp" /\ task'[Refresher].pc = "idle"
            /\ lastMetadata = Snapshot(Refresher)
       /\ task[Refresher].pc = "store" =>
            task'[Refresher].pc \in {"store", "stamp"}
       /\ task[Refresher].pc = "stamp" =>
            \A t \in Requests, now \in Clock : ~FetchMetadata(t, now)
      ]_vars

\* the refresh goroutine holds the write lock between its two writes, the
\* cache filled by an earlier refresh, while a request is free to call
\* FetchMetadata
MetadataRefreshWitness ==
    /\ task[Refresher].pc = "stamp"
    /\ lastUpdateMetadata > 0
    /\ \E t \in Requests : Free(t)

\* C22: reconnect liveness.  While Close has not been called, every id in
\* the dead queue is taken in the end by the dead-set goroutine and its
\* reconnect goroutine comes to dial.  An id that is being dialed for has
\* its old connection closed, is not in the free queue and is lent to no
\* one, and a dial for it can succeed whenever it is tried, however many
\* have failed; it leaves the dead set only by a dial that succeeds, which
\* puts it at the end of the free queue.
Dialing(id) ==
    reconnect[id] = "dial" =>
        /\ allBrokers[id] = "closed"
        /\ Occurrences(freeBrokers, id) = 0
        /\ InUse(id) = 0
        /\ ENABLED ReconnectDialOK(id)
        /\ ENABLED ReconnectDialFails(id)

ReconnectLiveness ==
    /\ [](\A id \in BrokerIDs : ~stopReconnect => Dialing(id))
    /\ [][\A id \in BrokerIDs :
            /\ reconnect[id] = "dial" /\ reconnect'[id] # "dial" =>
                    /\ reconnect'[id] = "none"
                    /\ allBrokers'[id] = "open"
                    /\ freeBrokers' = Append(freeBrokers, id)
            /\ reconnect[id] # "dial" /\ reconnect'[id] = "dial" =>
                    reconnect[id] = "close" /\ allBrokers'[id] = "closed"
         ]_vars
    /\ \A id \in BrokerIDs :
            Occurrences(deadBrokers, id) > 0
                ~> (reconnect[id] = "dial" \/ stopReconnect)

\* both ids were quarantined: the reconnect goroutine of one dials, the
\* other id is in the dead queue, and Close has not been called
ReconnectLivenessWitness ==
    /\ ~stopReconnect
    /\ \E id, other \in BrokerIDs :
        /\ reconnect[id] = "dial" /\ allBrokers[id] = "closed"
        /\ Occurrences(deadBrokers, other) > 0

\* C23: independent reconnects.  While the reconnect goroutine of an id
\* dials, however long, the dead-set goroutine can receive the next id of
\* the dead queue and the reconnect goroutine of any other id can take its
\* step; and when every dial for the other ids fails, the last id, once
\* quarantined, still comes back to the free queue (unless Close is called).
Independent ==
    \A id, other \in BrokerIDs :
        reconnect[id] = "dial" /\ other # id /\ ~stopReconnect =>
            /\ Started("dead") /\ Len(deadBrokers) > 0 => ENABLED DeadReceive
            /\ reconnect[other] = "close" => ENABLED ReconnectClose(other)
            /\ reconnect[other] = "dial" => ENABLED ReconnectDialOK(other)

IndependentReconnects ==
    /\ []Independent
    /\ Dead(LastID) > 0 ~> (Occurrences(freeBrokers, LastID) > 0 \/ stopReconnect)

\* the reconnect goroutines of two ids dial at the same time
IndependentReconnectsWitness ==
    /\ ~stopReconnect
    /\ \A id \in BrokerIDs : reconnect[id] = "dial"

\* C24: the rolling reconnect.  The goroutine runs iff ReconnectPeriod > 0.
\* In a period it takes at most one id, the head of the free queue, and
\* puts that id in the dead queue: the id it holds is lent to no request and
\* is in neither queue, and its deadBroker can always be taken.  When the
\* free queue is empty its step can be taken at once and changes nothing.
RollingHolds ==
    rollingID # NoBroker =>
        /\ \A t \in Tasks : ~Holds(t, rollingID)
        /\ Occurrences(freeBrokers, rollingID) = 0
        /\ Dead(rollingID) = 0
        /\ ENABLED RollingDead

RollingWakes ==
    rollingID = NoBroker /\ Started("rolling") =>
        /\ ENABLED RollingReconnect
        /\ Len(freeBrokers) = 0 =>
                ~ENABLED (RollingReconnect /\ ~UNCHANGED <<poolVars, cacheVars, task>>)

SendsEnabled(t) ==
    /\ task[t].pc = "GetMetadata" =>
            ENABLED GetMetadataResult(t, nil) /\ ENABLED GetMetadataTimedOut(t)
    /\ task[t].pc = "GetOffsets" /\ Len(task[t].offsets.results) > 0 =>
            ENABLED GetOffsetsLoop(t, "results")
    /\ task[t].pc = "GetOffsets" /\ task[t].offsets.timeout =>
            ENABLED GetOffsetsLoop(t, "timeout")
    /\ task[t].pc = "NewConsumer" => ENABLED NewConsumerResult(t, KafkaError)
    /\ task[t].pc \in HandleOps => ENABLED OperationTimedOut(t)
    /\ task[t].pc = "idle" /\ task[t].handle # "none" =>
            ENABLED CallClose(t) /\ ENABLED CallCorrupt(t) /\ ENABLED HandlerReturn(t)

QueueBounds ==
    /\ Len(freeBrokers) <= NumConns
    /\ Len(deadBrokers) <= NumConns
    /\ \A id \in BrokerIDs :
        /\ Occurrences(freeBrokers, id) + InUse(id) + Dead(id) <= 1
        /\ reconnect[id] = "dial" => ENABLED ReconnectDialOK(id)
    /\ rollingID # NoBroker => ENABLED RollingDead
    /\ \A t \in Requests : SendsEnabled(t)

\* the dead queue is full: it holds every id
QueueBoundsWitness ==
    /\ Len(deadBrokers) = NumConns
    /\ Len(freeBrokers) = 0

\* The pool under requests that look offsets up and read through a consumer,
\* every delegate call taking time: the lookups of the fetcher goroutines of
\* GetOffsets start and return in separate steps.
NextCalls ==
    \/ Background
    \/ \E t \in Requests : GetOffsets(t) /\ Quiet
    \/ \E t \in Requests : GetOffsetsTimer(t) /\ Quiet
    \/ \E t \in Requests, k \in 1 .. NumOffsets : FetcherCall(t, k) /\ Quiet
    \/ \E t \in Requests, k \in 1 .. NumOffsets, e \in FetcherOutcomes :
            FetcherReturns(t, k, e) /\ Quiet
    \/ \E t \in Requests, c \in {"results", "timeout"} : GetOffsetsLoop(t, c) /\ Quiet
    \/ \E t \in Requests : NewConsumer(t) /\ Quiet
    \/ \E t \in Requests, e \in Outcomes : NewConsumerResult(t, e) /\ Quiet
    \/ \E t \in Requests : Message(t) /\ Quiet
    \/ \E t \in Requests, e \in Outcomes : OperationResult(t, e) /\ Quiet
    \/ \E t \in Requests : OperationTimedOut(t) /\ Quiet
    \/ \E t \in Requests : HandlerReturn(t) /\ Quiet

SpecCalls == InitDisabled /\ [][NextCalls]_vars

\* the number of delegate calls in progress on the connection of the session
\* task t has borrowed: the lookups of GetOffsets its fetcher goroutines are
\* inside, or the one call of the operation the task is blocked in
InProgress(t) ==
    IF task[t].brokerID = NoBroker THEN 0
    ELSE IF task[t].pc = "GetOffsets"
    THEN Cardinality({k \in 1 .. NumOffsets : task[t].offsets.calling[k]})
    ELSE IF task[t].pc = "idle" THEN 0 ELSE 1

\* C26: sequential use of a session.  At no time are two delegate calls in
\* progress on the connection of one borrowed session.
SequentialUse == \A t \in Requests : InProgress(t) <= 1

\* what holds instead: the calls in progress on a borrowed session are at
\* most the NumOffsets lookups of one GetOffsets, and at most one in every
\* other operation
SequentialUseButOffsets ==
    \A t \in Requests :
        /\ InProgress(t) <= NumOffsets
        /\ task[t].pc # "GetOffsets" => InProgress(t) <= 1

\* the queries with any positive limit an int32 holds
QueriesOfAnyLimit ==
    {Query(limit, NotGiven, NotGiven) : limit \in Given(1 .. MaxInt32)}

\* The GET requests with any limit, from the first offset of a partition
\* nothing is added to, the lookups of GetOffsets succeeding.
NextBudget ==
    \/ Background
    \/ \E t \in GetRequests : getHandler(t, MaxClock)
    \/ ValidRequestSteps
    \/ GetSteps(QueriesOfAnyLimit, {nil})

SpecBudget == InitGet /\ [][NextBudget]_vars

\* min(size * length, MaxFetchSize) over the integers
Budget(size, length) ==
    IF size * length > MaxFetchSize THEN MaxFetchSize ELSE size * length

\* the handlers that are in NewConsumer in an outer iteration of the read loop
InNewConsumer == {t \in GetRequests : handler[t].pc = "NewConsumer"}

\* C27: fetch budget.  In every outer iteration of the read loop the max
\* fetch size given to the consumer is min(size * remainingLimit,
\* MaxFetchSize) computed over the integers, so it is positive and at most
\* MaxFetchSize, whatever int32 values the size and the limit have.
FetchBudget ==
    \A t \in InNewConsumer :
        /\ handler[t].fetchSize = Budget(handler[t].size, handler[t].length)
        /\ 0 < handler[t].fetchSize
        /\ handler[t].fetchSize <= MaxFetchSize

\* what holds instead: the budget is that minimum whenever the product
\* size * remainingLimit is an int32, and it is never above MaxFetchSize
FetchBudgetOfInt32 ==
    \A t \in InNewConsumer :
        /\ handler[t].size * handler[t].length <= MaxInt32 =>
                handler[t].fetchSize = Budget(handler[t].size, handler[t].length)
        /\ handler[t].fetchSize <= MaxFetchSize

\* the queries whose limit is absent or not positive
QueriesOfNoLimit == {query \in Queries : query.limit = NotGiven \/ query.limit[1] <= 0}

\* the handler of request t, back from GetOffsets, can enter the read loop
\* for the query with a remaining limit other than length
EntersWithout(t, query, length) ==
    \E offsetFrom \in 0 .. Len(log) :
        ENABLED (/\ GetOffsetsReturns(t, query, offsetFrom, Len(log))
                 /\ handler'[t].pc = "ConsumeLoop"
                 /\ ~(handler'[t].limit = length /\ handler'[t].length = length))

\* C28: read bounds.  A read never streams more than limit messages, a limit
\* that is absent or not positive counting as 1: in the read loop the
\* messages streamed and the remaining limit add up to the limit.  A Consume
\* call is issued (and a consumer opened) only while the remaining limit is
\* positive and the offset to read is below offsetTo, so none is issued after
\* the remaining limit reached 0 or after a message was emitted whose
\* offset + 1 >= offsetTo.
ReadBounds ==
    /\ [](\A t \in GetRequests :
            /\ Back(t, "GetOffsets") =>
                /\ \A query \in QueriesOfNoLimit : ~EntersWithout(t, query, 1)
                /\ \A query \in Queries \ QueriesOfNoLimit :
                        ~EntersWithout(t, query, query.limit[1])
            /\ InLoop(t) =>
                /\ handler[t].limit >= 1
                /\ Len(Messages(handler[t].response)) + handler[t].length = handler[t].limit
                /\ handler[t].length >= 1
                /\ handler[t].offset < handler[t].offsetTo
                /\ handler[t].offset =
                        handler[t].start + Len(Messages(handler[t].response)))
    /\ [][\A t \in GetRequests :
            InLoop(t) => Len(Messages(handler'[t].response)) <= handler[t].limit]_vars

\* a handler that has streamed a message is in its last Consume call, for
\* the last message of its limit and the last offset below offsetTo
ReadBoundsWitness ==
    \E t \in GetRequests :
        /\ handler[t].pc = "Message"
        /\ task[t].pc = "Message"
        /\ handler[t].limit = MaxLimit
        /\ handler[t].length = 1
        /\ handler[t].offset + 1 = handler[t].offsetTo

\* the ids that are out of the pool: in neither queue, with no reconnect
\* goroutine and not with the rolling reconnect
OutOfPool ==
    {id \in BrokerIDs :
        Occurrences(freeBrokers, id) = 0 /\ Dead(id) = 0 /\ rollingID # id}

\* the ids request t holds
HeldBy(t) == {id \in BrokerIDs : Holds(t, id)}

\* the handler of request t stands before a call that borrows: NewProducer
\* or GetOffsets after validRequest, the first NewConsumer after GetOffsets,
\* the NewConsumer of the next outer iteration
BeforeBorrow(t) ==
    \/ Back(t, "validRequest")
    \/ Back(t, "GetOffsets")
    \/ Back(t, "ConsumeLoop")

Emitted(t) ==
    {log[handler[t].start + i].len :
        i \in 1 .. Len(Messages(handler'[t].response))}

\* the step is the successful exit of the read of request t: the handler
\* leaves the loop and ends the envelope
SuccessfulExit(t) ==
    /\ InLoop(t)
    /\ handler'[t].pc = "done"
    /\ handler'[t].response # <<>>
    /\ handler'[t].response[Len(handler'[t].response)] = Closing

\* C30: hint update by reads.  A read writes the size hint only in the step
\* in which its loop exits successfully, having streamed at least one
\* non-empty message, and it puts the largest payload length it streamed
\* (never the fetch size it grew to); every other step of a read (a return
\* on an error, with no free session or with the client gone, an exit with
\* no message) leaves the hints as they are.
HintUpdate ==
    [][/\ \A t \in GetRequests :
            SuccessfulExit(t) /\ Emitted(t) # {} /\ Largest(Emitted(t)) > 0 =>
                /\ puts' = [puts EXCEPT ![Topic] = @ \cup {Largest(Emitted(t))}]
                /\ MessageSize'[Topic] >= Largest(Emitted(t))
                /\ MessageSize'[Topic] \in {MessageSize[Topic], Largest(Emitted(t))}
       /\ <<MessageSize, puts>>' # <<MessageSize, puts>> =>
            \E t \in GetRequests :
                SuccessfulExit(t) /\ Emitted(t) # {} /\ Largest(Emitted(t)) > 0
      ]_vars

\* a read of a larger and then a small message has ended its envelope: the
\* hint, the size of a small message before, is the size of the larger one
HintUpdateWitness ==
    \E t \in GetRequests :
        /\ handler[t].pc = "done"
        /\ Envelope(handler[t].response)
        /\ Len(Messages(handler[t].response)) = 2
        /\ Messages(handler[t].response)[1].value = "q"
        /\ Messages(handler[t].response)[2].value = "p"
        /\ puts[Topic] = {SmallBody, DefaultFetchSize + 1}
        /\ MessageSize[Topic] = DefaultFetchSize + 1

\* the response of a handler that found the client connection dead
Cancelled(response) ==
    /\ response # <<>>
    /\ response[Len(response)] = Lost

\* the step in which the handler of request t finds the connection dead
Cancels(t) ==
    /\ InLoop(t)
    /\ handler'[t].response = handler[t].response \o <<Lost>>

\* C31: read cancellation.  The read loop asks connIsAlive before every
\* Consume call: when it reports the client connection dead, no step of the
\* handler leads into a Message call.  In the step in which the handler
\* learns it, the handler returns, the session it holds goes to the end of
\* the free queue (not to the dead queue) and the hints stay as they are; and
\* a handler that has returned so holds no session, is in no call and opens
\* no consumer.
ReadCancellation ==
    /\ [](\A t \in GetRequests :
            /\ ~ENABLED (NewConsumerReturns(t, FALSE) /\ handler'[t].pc = "Message")
            /\ ~ENABLED (MessageReturns(t, FALSE) /\ handler'[t].pc = "Message")
            /\ Cancelled(handler[t].response) =>
                /\ handler[t].pc = "done"
                /\ Free(t)
                /\ HeldBy(t) = {}
                /\ ~ENABLED ConsumeLoop(t))
    /\ [][\A t \in GetRequests :
            Cancels(t) =>
                /\ handler'[t].pc = "done"
                /\ task[t].opened
                /\ freeBrokers' = Append(freeBrokers, task[t].brokerID)
                /\ deadBrokers' = deadBrokers
                /\ task'[t].handle = "none"
                /\ task'[t].brokerID = NoBroker
                /\ <<MessageSize, puts>>' = <<MessageSize, puts>>
      ]_vars

\* a handler that had streamed a message found the connection dead: it has
\* returned, the response ends where it was, and every id is free
ReadCancellationWitness ==
    \E t \in GetRequests :
        /\ Cancelled(handler[t].response)
        /\ Len(Messages(handler[t].response)) = 1
        /\ Len(freeBrokers) = NumConns

\* the start offset of a GET the claim gives: by the relative parameter when
\* it is given (whether or not offset is), else by the offset parameter,
\* else the first offset
StartOffset(query, offsetFrom, offsetTo) ==
    CASE query.relative # NotGiven /\ query.relative[1] >= 0 ->
            offsetFrom + query.relative[1]
      [] query.relative # NotGiven /\ query.relative[1] < 0 ->
            offsetTo + query.relative[1]
      [] query.relative = NotGiven /\ query.offset # NotGiven -> query.offset[1]
      [] query.relative = NotGiven /\ query.offset = NotGiven -> offsetFrom

\* the handler of request t, back from GetOffsets with offsetFrom and the
\* end of the log, can do something else for the query than go on
ResolvesOtherwise(t, query, offsetFrom) ==
    LET offsetTo == Len(log)
        start == StartOffset(query, offsetFrom, offsetTo)
    IN ENABLED (/\ GetOffsetsReturns(t, query, offsetFrom, offsetTo)
                /\ ~ IF offsetFrom <= start /\ start < offsetTo
                     THEN /\ Admitted(t, start, offsetTo)
                          /\ handler'[t].offset = start
                     ELSE Rejected(t))

\* C32: start offset resolution.  The start offset of a GET is
\* offsetFrom + R when relative=R with R >= 0, offsetTo + R when R < 0
\* (relative coming before offset when both are given), the given offset
\* when only offset is given, and offsetFrom when neither is; the read goes
\* on from it when offsetFrom <= start < offsetTo and is answered out of
\* range otherwise.
StartOffsetResolution ==
    \A t \in GetRequests :
        Back(t, "GetOffsets") /\ task[t].ret = nil =>
            \A query \in Queries, offsetFrom \in 0 .. Len(log) :
                /\ ENABLED GetOffsetsReturns(t, query, offsetFrom, Len(log))
                /\ ~ResolvesOtherwise(t, query, offsetFrom)

\* GetOffsets has returned the offsets 0 and 2 for a GET with offset=0 and
\* relative=-1: the read goes on from offset 1
StartOffsetResolutionWitness ==
    \E t \in GetRequests :
        /\ Back(t, "GetOffsets") /\ task[t].ret = nil
        /\ Len(log) = 2
        /\ ENABLED (/\ GetOffsetsReturns(t, Query(NotGiven, <<0>>, <<-1>>), 0, 2)
                    /\ handler'[t].pc = "ConsumeLoop"
                    /\ handler'[t].start = 1
                    /\ handler'[t].offset = 1)

\* the offset commits: a body that is JSON or not, with an offset or with
\* none, for a consumer name that is given or empty
Commits == {Commit(json, offset, consumer) :
                json \in BOOLEAN, offset \in -1 .. 1, consumer \in {"", "c"}}

\* commitOffsetHandler after validRequest
CommitSteps ==
    \/ \E t \in Requests, e \in Outcomes : NewOffsetCoordinatorResult(t, e) /\ Quiet
    \/ \E t \in Requests : NewOffsetCoordinatorReturns(t)
    \/ \E t \in Requests, e \in Outcomes :
            OperationResult(t, e) /\ task[t].pc = "CommitOffset" /\ Quiet
    \/ \E t \in Requests : OperationTimedOut(t) /\ task[t].pc = "CommitOffset" /\ Quiet
    \/ \E t \in Requests : CommitOffsetReturns(t)

\* the requests that are offset commits
CommitRequests == Requests \ PostRequests

\* The writes: the pool with the metadata cache disabled, under POST
\* requests and offset commits with any body.
NextWrite ==
    \/ Background
    \/ \E t \in PostRequests, msg \in Bodies : sendHandler(t, msg, MaxClock)
    \/ \E t \in CommitRequests, commit \in Commits :
            commitOffsetHandler(t, commit, MaxClock)
    \/ ValidRequestSteps
    \/ SendSteps
    \/ CommitSteps

SpecWrite == InitDisabled /\ [][NextWrite]_vars

\* the step answers request t with status 400 alone, borrowing nothing and
\* starting no call
AnswersBadRequest(t) ==
    /\ handler'[t].pc = "done"
    /\ handler'[t].response = <<errorResponse(StatusBadRequest)>>
    /\ task'[t].pc = "idle"
    /\ task'[t].brokerID = NoBroker
    /\ UNCHANGED <<poolVars, log, MessageSize, puts>>

\* the step writes the success response of request t
AnswersSuccess(t) ==
    /\ handler'[t].pc = "done"
    /\ handler'[t].response = <<successResponse>>
    /\ handler[t].pc # "done"

BadBodies == {msg \in Bodies : msg.len > MaxFetchSize \/ ~msg.json}
BadCommits == {commit \in Commits : ~commit.json \/ commit.offset < 0}

\* C33: write validation before borrow.  A POST whose body is larger than
\* MaxFetchSize or is not JSON, and an offset commit whose body is not JSON
\* or gives an offset below 0, is answered 400 in the first step of its
\* handler, which borrows no session and starts no call.  A POST starts a
\* Produce call only once, after NewProducer; it is answered with success
\* only after that call returned no error, and the size hint changes only in
\* that step.
WriteValidation ==
    /\ [](\A t \in Requests :
            handler[t].pc = "done" =>
                /\ \A msg \in BadBodies :
                    /\ ENABLED sendHandler(t, msg, MaxClock)
                    /\ ~ENABLED (sendHandler(t, msg, MaxClock) /\ ~AnswersBadRequest(t))
                /\ \A commit \in BadCommits :
                    /\ ENABLED commitOffsetHandler(t, commit, MaxClock)
                    /\ ~ENABLED (/\ commitOffsetHandler(t, commit, MaxClock)
                                 /\ ~AnswersBadRequest(t)))
    /\ [][/\ \A t \in Requests :
            /\ task'[t].pc = "SendMessage" /\ task[t].pc # "SendMessage" =>
                /\ Back(t, "NewProducer")
                /\ handler'[t].pc = "SendMessage"
            /\ handler[t].pc = "SendMessage" =>
                /\ handler'[t].pc \in {"SendMessage", "done"}
                /\ task'[t].pc = "SendMessage" => task[t].pc = "SendMessage"
            /\ handler[t].kind = "POST" /\ AnswersSuccess(t) =>
                /\ Back(t, "SendMessage")
                /\ task[t].ret = nil
                /\ puts'[Topic] = puts[Topic] \cup {handler[t].msg.len}
                /\ MessageSize'[Topic] >= handler[t].msg.len
          /\ <<MessageSize, puts>>' # <<MessageSize, puts>> =>
                \E t \in Requests : handler[t].kind = "POST" /\ AnswersSuccess(t)
      ]_vars

\* a POST was answered with success, its message is in the partition and
\* its size is the hint, while another request holds or waits for a session
WriteValidationWitness ==
    \E t \in Requests :
        /\ handler[t].kind = "POST"
        /\ handler[t].pc = "done"
        /\ handler[t].response = <<successResponse>>
        /\ Len(log) = 1
        /\ puts[Topic] = {log[1].len}
        /\ MessageSize[Topic] = log[1].len
        /\ \E u \in Requests \ {t} :
            /\ handler[u].kind = "COMMIT"
            /\ handler[u].response = <<errorResponse(StatusBadRequest)>>

\* the snapshots: at most one record per topic name, in either order, each
\* with an error marker or with none and with at most one record per
\* partition id, in either order
TopicNames == {Topic, "u"}
PartitionIDs == {0, 1}
PartitionRecords ==
    {PartitionRecord(id, leader, isrs) :
        id \in PartitionIDs, leader \in {1, 2}, isrs \in {<<>>, <<1, 2>>}}
PartitionLists ==
    {<<>>} \cup {<<p>> : p \in PartitionRecords}
           \cup {s \in {<<p, q>> : p \in PartitionRecords, q \in PartitionRecords} :
                    s[1].ID # s[2].ID}
TopicRecords ==
    {TopicRecord(name, err, partitions) :
        name \in TopicNames, err \in {nil, KafkaError}, partitions \in PartitionLists}
Snapshots ==
    {<<>>} \cup {<<a>> : a \in TopicRecords}
           \cup {s \in {<<a, b>> : a \in TopicRecords, b \in TopicRecords} :
                    s[1].Name # s[2].Name}

\* a client whose cache holds any snapshot
InitLookup ==
    /\ freeBrokers = [i \in 1 .. NumConns |-> i - 1]
    /\ deadBrokers = <<>>
    /\ allBrokers = [id \in BrokerIDs |-> "open"]
    /\ Counters = [FreeBrokers |-> NumConns, DeadBrokers |-> 0]
    /\ reconnect = [id \in BrokerIDs |-> "none"]
    /\ rollingID = NoBroker
    /\ MetadataCachePeriod = CachePeriod
    /\ lastMetadata \in Snapshots
    /\ lastUpdateMetadata = 0
    /\ task = [t \in Tasks |-> IdleTask]
    /\ stopReconnect = FALSE
    /\ newClient = [pc |-> "started", brokerID |-> NumConns]
    /\ goroutines = StartedGoroutines
    /\ MessageSize = [topic \in Topics |-> NoSize]
    /\ puts = [topic \in Topics |-> {}]
    /\ log = <<>>
    /\ handler = [t \in Requests |-> IdleHandler]

\* The lookups of one request in the snapshot.
NextLookup ==
    \E call \in {"Leader", "Replicas"}, topic \in TopicNames, partitionID \in PartitionIDs :
        Lookup(1, call, topic, partitionID) /\ Quiet

SpecLookup == InitLookup /\ [][NextLookup]_vars

\* the partition records of the snapshot for the topic and the partition id
Matching(topics, topic, partitionID) ==
    {p \in PartitionRecords :
        \E i \in DOMAIN topics :
            /\ topics[i].Name = topic
            /\ \E j \in DOMAIN topics[i].Partitions : topics[i].Partitions[j] = p
            /\ p.ID = partitionID}

\* the lookup found returned what the record that matches holds, or the
\* value for no record, and no error
ReturnsRecord(found) ==
    LET matching == Matching(lastMetadata, found.topic, found.partitionID)
        p == CHOOSE p \in matching : TRUE
    IN /\ found.err = nil
       /\ found.value =
            IF matching = {}
            THEN (IF found.call = "Leader" THEN -1 ELSE <<>>)
            ELSE (IF found.call = "Leader" THEN p.Leader ELSE p.Isrs)

\* C34: leader and replica lookup.  For every snapshot, Leader(topic, part)
\* returns the leader id of the partition record that matches and -1 with
\* no error when none matches, and Replicas(topic, part) the in-sync replica
\* list of that record and the empty list with no error when none matches,
\* whatever error markers the records of other topics carry (a lookup for
\* a topic whose own record carries one is left aside).
LeaderReplicaLookup ==
    \A t \in Requests :
        task[t].found # <<>> =>
            \/ \E i \in DOMAIN lastMetadata :
                /\ lastMetadata[i].Name = task[t].found.topic
                /\ lastMetadata[i].Err # nil
            \/ ReturnsRecord(task[t].found)

\* what holds instead: the claim, for the snapshots in which no topic record
\* before the record that matches (none at all, when none matches) carries an
\* error marker
LeaderReplicaLookupNoMarker ==
    \A t \in Requests :
        task[t].found # <<>> /\ (\A i \in DOMAIN lastMetadata : lastMetadata[i].Err = nil) =>
            ReturnsRecord(task[t].found)

\* The pool with every function between its channel operation and its
\* counter update as a state, under callers that borrow an id and give it
\* back to either queue, the dead-set goroutine and the reconnect goroutines
\* (no timer of the rolling reconnect fires).
NextGauges ==
    \/ \E t \in Requests, function \in {"getBroker", "freeBroker", "deadBroker"} :
            QueueStep(t, function) /\ Quiet
    \/ \E t \in Requests : CounterStep(t) /\ Quiet
    \/ DeadTake /\ Quiet
    \/ \E id \in BrokerIDs : DeadDec(id) /\ Quiet
    \/ \E id \in BrokerIDs : ReconnectClose(id) /\ Quiet
    \/ \E id \in BrokerIDs : ReconnectDialFails(id) /\ Quiet
    \/ \E id \in BrokerIDs : ReconnectSend(id) /\ Quiet
    \/ \E id \in BrokerIDs : ReconnectInc(id) /\ Quiet

SpecGauges == InitDisabled /\ [][NextGauges]_vars

\* no function is between its channel operation and its counter update
AtRest ==
    /\ \A t \in Requests : task[t].pc = "idle"
    /\ \A id \in BrokerIDs : reconnect[id] \notin {"received", "freeBroker"}

\* the counters are the lengths of the queues whenever no function is between
\* its two steps
GaugesAtRest ==
    AtRest =>
        /\ Counters.FreeBrokers = Len(freeBrokers)
        /\ Counters.DeadBrokers = Len(deadBrokers)

\* C35: pool gauges.  Whenever no pool operation is between its queue
\* operation and its counter update, the FreeBrokers counter is the number
\* of ids in the free queue and the DeadBrokers counter the number of ids in
\* the dead queue; and in every state neither counter is negative.
PoolGauges ==
    /\ GaugesAtRest
    /\ Counters.FreeBrokers >= 0
    /\ Counters.DeadBrokers >= 0


\* a GetOffsets call of t ends in this step with no timeout: both passes of
\* its loop received from results
EndsInTime(t) ==
    /\ task[t].pc = "GetOffsets"
    /\ task'[t].pc = "idle"
    /\ ~task[t].offsets.isTimeout
    /\ deadBrokers' = deadBrokers

\* the errors the two lookups of the call ended with, in the order they were
\* received: err of the first pass and the head of results
LookupErrors(t) == <<task[t].offsets.err, Head(task[t].offsets.results)>>

\* the call returns the result received last
OffsetsErrorLast ==
    [][\A t \in Requests : EndsInTime(t) => task'[t].ret = LookupErrors(t)[2]]_vars

\* C36: the error of GetOffsets.  When no timeout occurs, GetOffsets returns
\* a non-nil error whenever at least one of its two lookups ended with an
\* error, in whichever order the two results arrive, and a nil error only
\* when both lookups succeeded.
OffsetsError ==
    [][\A t \in Requests :
        EndsInTime(t) =>
            (task'[t].ret = nil <=> \A i \in 1 .. NumOffsets : LookupErrors(t)[i] = nil)
      ]_vars


\* the ids in the free queue and the ids lent to a caller or to the rolling
\* reconnect
FreeOrInUse == Range(freeBrokers) \cup InUseIDs

\* C37: free ids are connected.  From the return of NewClient until Close,
\* every id in the free queue (and every id in use) is bound in allBrokers
\* to an open connection; the step that puts a reconnected id in the free
\* queue has bound the new connection to it; and no step of a background
\* goroutine closes the connection of a free or in-use id.
FreeConnected ==
    /\ [](\A id \in FreeOrInUse : allBrokers[id] = "open")
    /\ [][\A id \in BrokerIDs :
            reconnect[id] = "dial" /\ id \in Range(freeBrokers')
                => allBrokers'[id] = "open"
         ]_vars
    /\ [][\A id \in BrokerIDs :
            allBrokers[id] = "open" /\ allBrokers'[id] # "open"
                => /\ id \notin FreeOrInUse
                   /\ reconnect[id] = "close"
         ]_vars

\* an id is being dialed again, with its old connection closed, while
\* another id is free or in use
FreeConnectedWitness ==
    \E id \in BrokerIDs, other \in FreeOrInUse :
        /\ reconnect[id] = "dial"
        /\ allBrokers[id] = "closed"
        /\ ENABLED (ReconnectDialOK(id) /\ Quiet)
        /\ allBrokers[other] = "open"


\* GetMetadata with the goroutine of its delegate call, under the timeout of
\* the call, the dead-set goroutine and the reconnect goroutines.
NextAbandon ==
    \/ \E t \in Requests : GetMetadataGo(t) /\ Quiet
    \/ \E t \in Requests, conn \in {"borrowed", "replacement"} :
            DelegateReads(t, conn) /\ Quiet
    \/ \E t \in Requests, e \in Outcomes : DelegateReturns(t, e) /\ Quiet
    \/ \E t \in Requests : GetMetadataTimedOut(t) /\ Quiet
    \/ DeadReceive /\ Quiet
    \/ \E id \in BrokerIDs : ReconnectClose(id) /\ Quiet
    \/ \E id \in BrokerIDs : ReconnectDialFails(id) /\ Quiet
    \/ \E id \in BrokerIDs : ReconnectBind(id) /\ Quiet

SpecAbandon == InitDisabled /\ [][NextAbandon]_vars

\* the delegate call of t was abandoned: its goroutine lives and GetMetadata
\* has returned at its timeout
Abandoned(t) == task[t].delegate.pc # "none" /\ task[t].pc # "GetMetadata"

\* the delegate call of t runs on a connection bound to the id after t
\* borrowed it
OnReplacement(t) ==
    /\ task[t].delegate.pc = "Metadata"
    /\ task[t].delegate.conn = "replacement"

\* a caller other than t has borrowed the id the goroutine of t captured
LentAgain(t) ==
    \E u \in Requests \ {t} : Holds(u, task[t].delegate.id)

\* while GetMetadata has not returned, its goroutine runs on the connection
\* of the borrow and no assignment of the entry races with its read
DelegateUnderBorrow ==
    \A t \in Requests :
        task[t].pc = "GetMetadata" =>
            /\ ~Racing(t)
            /\ ~OnReplacement(t)
            /\ ~LentAgain(t)

\* C38: abandoned calls stay on the old connection.  A delegate call that
\* was started under a borrow and abandoned at the timeout never runs on the
\* replacement connection the reconnect goroutine binds to the id later; the
\* connection of an id lent to a new caller is used by that caller only; and
\* allBrokers[id] is never assigned while another goroutine reads it.
AbandonedCalls ==
    \A t \in Requests :
        /\ ~OnReplacement(t)
        /\ task[t].delegate.pc = "Metadata" => ~LentAgain(t)
        /\ ~Racing(t)


\* the number of messages the read of request t has emitted
EmittedCount(t) == Len(Messages(handler[t].response))

\* the step opens a consumer session for the read of request t
OpensSession(t) ==
    /\ handler[t].pc = "ConsumeLoop"
    /\ handler'[t].pc = "NewConsumer"

\* the step emits a message of the read of request t
Emits(t) ==
    /\ InLoop(t)
    /\ Len(Messages(handler'[t].response)) > EmittedCount(t)

====
